---------------------------- MODULE Spec2Model ----------------------------
(***************************************************************************)
(* Model of the lux router's path tree (NodeTree): route registration      *)
(* (addRoute) and lookup with backtracking (Find, findNode, tryBacktrack), *)
(* of the engine's method registry and request dispatch, and of Params.    *)
(*                                                                         *)
(* Strings are sequences of one-character strings, so that TrimPrefix,     *)
(* Split, Join, segment[0] and Path[1:] are computed as the code computes  *)
(* them.  Slice indices keep the code's 0-based values; a sequence is      *)
(* indexed at index + 1.                                                   *)
(***************************************************************************)
EXTENDS Integers, Sequences, FiniteSets

\* Most segments of a registered path or of a request path.
MaxSegs == 2
\* Most registrations accepted by one tree.
MaxRoutes == 3
\* Most lookups served once registration is over.
MaxLookups == 1
\* Most registrations accepted by the engine, over all methods.
MaxEngineRoutes == 2
\* Most entries of a Params value handed to Get.
MaxParams == 3
\* Most registrations before a lookup is followed step by step.
MaxTermRoutes == 2
\* Longest handler chain of which every mix of handler kinds is run.
MaxShortChain == 4
\* Most events of one chain run that are followed; a run with more is cut.
MaxEvents == 300
\* Most RouterGroups, the engine's included; most Use calls; most routes
\* registered through a group.
MaxGroups == 3
MaxUses == 2
MaxGroupRoutes == 2
\* Most calls made on one responseWriter.
MaxWriterCalls == 4
\* Most frames a peer sends to one Conn, and most of them not yet read.
MaxFrames == 4
MaxUnreadFrames == 1
\* Most calls one goroutine makes to write to or close one Conn.
MaxConnCalls == 2

---------------------------------------------------------------------------
(* Strings *)

Slash == "/"
Colon == ":"
Star == "*"

\* strings.TrimPrefix(path, "/")
TrimPrefix(path) ==
  IF Len(path) > 0 /\ path[1] = Slash THEN Tail(path) ELSE path

\* Index (1-based) of the first "/" of s, 0 when there is none.
IndexSlash(s) ==
  IF \E i \in 1..Len(s) : s[i] = Slash
    THEN CHOOSE i \in 1..Len(s) : s[i] = Slash /\ \A j \in 1..(i-1) : s[j] # Slash
    ELSE 0

\* strings.Split(s, "/")
RECURSIVE Split(_)
Split(s) ==
  LET i == IndexSlash(s) IN
  IF i = 0 THEN <<s>>
  ELSE <<SubSeq(s, 1, i-1)>> \o Split(SubSeq(s, i+1, Len(s)))

\* strings.Join(segs, "/")
RECURSIVE Join(_)
Join(segs) ==
  IF Len(segs) = 0 THEN <<>>
  ELSE IF Len(segs) = 1 THEN segs[1]
  ELSE segs[1] \o <<Slash>> \o Join(Tail(segs))

splitPath(path) ==
  LET p == TrimPrefix(path) IN
  IF p = <<>> THEN << <<>> >> ELSE Split(p)

---------------------------------------------------------------------------
(* Handler chains, nodes, trees *)

\* A HandlerChain is a slice: nil, or a (possibly empty) sequence of handlers.
NilChain == [isNil |-> TRUE, fns |-> <<>>]
Chain(fs) == [isNil |-> FALSE, fns |-> fs]
LenChain(h) == Len(h.fns)

Static == "Static"
Root == "Root"
Parameter == "Parameter"
Wildcard == "Wildcard"

\* &Node{Path, NodeType, Children: make([]*Node, 0)}; Children holds indices
\* into the tree's node sequence, node 1 being nt.Root.
NewNode(path, nodeType) ==
  [Path |-> path, NodeType |-> nodeType, Handlers |-> NilChain, Children |-> <<>>]

NewNodeTree == << NewNode(<<Slash>>, Root) >>

\* MatchChild by path only: a parameter segment reuses a Parameter child of
\* the same name only.
MatchChild_ExactPath(nodes, current, segment) ==
  LET ch == nodes[current].Children
      ok(k) == nodes[ch[k]].Path = segment
  IN IF \E k \in 1..Len(ch) : ok(k)
       THEN ch[CHOOSE k \in 1..Len(ch) : ok(k) /\ \A j \in 1..(k-1) : ~ok(j)]
       ELSE 0

\* No child is ever reused: every segment gets a node of its own.
MatchChild_None(nodes, current, segment) == 0

\* The first child of `current` that registration reuses for `segment`, 0 if none.
MatchChild(nodes, current, segment) ==
  LET ch == nodes[current].Children
      ok(k) == \/ nodes[ch[k]].Path = segment
               \/ (nodes[ch[k]].NodeType = Parameter /\ segment[1] = Colon)
  IN IF \E k \in 1..Len(ch) : ok(k)
       THEN ch[CHOOSE k \in 1..Len(ch) : ok(k) /\ \A j \in 1..(k-1) : ~ok(j)]
       ELSE 0

SegmentType(segment) ==
  IF segment[1] = Colon THEN Parameter
  ELSE IF segment[1] = Star THEN Wildcard
  ELSE Static

RECURSIVE addRouteLoop(_, _, _, _, _, _)

\* addRouteLoop with the duplicate check reduced to pathExists: a path whose
\* nodes all exist is refused even when its landing node carries no handlers.
addRouteLoop_NoHandlerCheck(nodes, segments, i, current, pathExists, handlers) ==
  IF i >= Len(segments) THEN [nodes |-> nodes, err |-> "none"]
  ELSE
    LET segment == segments[i+1] IN
    IF segment = <<>>
      THEN addRouteLoop(nodes, segments, i+1, current, pathExists, handlers)
    ELSE
      LET m == MatchChild(nodes, current, segment)
          found == m # 0
          new == Len(nodes) + 1
          nodes1 == IF found THEN nodes
                    ELSE Append([nodes EXCEPT ![current].Children = Append(@, new)],
                                NewNode(segment, SegmentType(segment)))
          cur1 == IF found THEN m ELSE new
          exists1 == pathExists /\ found
      IN IF i = Len(segments) - 1
           THEN IF exists1
                  THEN [nodes |-> nodes1, err |-> "DuplicateRoute"]
                  ELSE addRouteLoop([nodes1 EXCEPT ![cur1].Handlers = handlers],
                                    segments, i+1, cur1, exists1, handlers)
           ELSE addRouteLoop(nodes1, segments, i+1, cur1, exists1, handlers)

\* addRouteLoop without the duplicate check: the last node always gets the
\* handlers passed.
addRouteLoop_NoDuplicateCheck(nodes, segments, i, current, pathExists, handlers) ==
  IF i >= Len(segments) THEN [nodes |-> nodes, err |-> "none"]
  ELSE
    LET segment == segments[i+1] IN
    IF segment = <<>>
      THEN addRouteLoop(nodes, segments, i+1, current, pathExists, handlers)
    ELSE
      LET m == MatchChild(nodes, current, segment)
          found == m # 0
          new == Len(nodes) + 1
          nodes1 == IF found THEN nodes
                    ELSE Append([nodes EXCEPT ![current].Children = Append(@, new)],
                                NewNode(segment, SegmentType(segment)))
          cur1 == IF found THEN m ELSE new
          exists1 == pathExists /\ found
      IN IF i = Len(segments) - 1
           THEN addRouteLoop([nodes1 EXCEPT ![cur1].Handlers = handlers],
                             segments, i+1, cur1, exists1, handlers)
           ELSE addRouteLoop(nodes1, segments, i+1, cur1, exists1, handlers)

\* addRouteLoop with the handlers assigned before the duplicate check.
addRouteLoop_AssignFirst(nodes, segments, i, current, pathExists, handlers) ==
  IF i >= Len(segments) THEN [nodes |-> nodes, err |-> "none"]
  ELSE
    LET segment == segments[i+1] IN
    IF segment = <<>>
      THEN addRouteLoop(nodes, segments, i+1, current, pathExists, handlers)
    ELSE
      LET m == MatchChild(nodes, current, segment)
          found == m # 0
          new == Len(nodes) + 1
          nodes1 == IF found THEN nodes
                    ELSE Append([nodes EXCEPT ![current].Children = Append(@, new)],
                                NewNode(segment, SegmentType(segment)))
          cur1 == IF found THEN m ELSE new
          exists1 == pathExists /\ found
      IN IF i = Len(segments) - 1
           THEN IF LenChain(nodes1[cur1].Handlers) > 0 /\ exists1
                  THEN [nodes |-> [nodes1 EXCEPT ![cur1].Handlers = handlers],
                        err |-> "DuplicateRoute"]
                  ELSE addRouteLoop([nodes1 EXCEPT ![cur1].Handlers = handlers],
                                    segments, i+1, cur1, exists1, handlers)
           ELSE addRouteLoop(nodes1, segments, i+1, cur1, exists1, handlers)

\* The loop of NodeTree.addRoute from segment i (0-based) on.
addRouteLoop(nodes, segments, i, current, pathExists, handlers) ==
  IF i >= Len(segments) THEN [nodes |-> nodes, err |-> "none"]
  ELSE
    LET segment == segments[i+1] IN
    IF segment = <<>>
      THEN addRouteLoop(nodes, segments, i+1, current, pathExists, handlers)
    ELSE
      LET m == MatchChild(nodes, current, segment)
          found == m # 0
          new == Len(nodes) + 1
          nodes1 == IF found THEN nodes
                    ELSE Append([nodes EXCEPT ![current].Children = Append(@, new)],
                                NewNode(segment, SegmentType(segment)))
          cur1 == IF found THEN m ELSE new
          exists1 == pathExists /\ found
      IN IF i = Len(segments) - 1
           THEN IF LenChain(nodes1[cur1].Handlers) > 0 /\ exists1
                  THEN [nodes |-> nodes1, err |-> "DuplicateRoute"]
                  ELSE addRouteLoop([nodes1 EXCEPT ![cur1].Handlers = handlers],
                                    segments, i+1, cur1, exists1, handlers)
           ELSE addRouteLoop(nodes1, segments, i+1, cur1, exists1, handlers)

\* addRoute without the check of the root's handlers: "/" is assigned again.
addRoute_NoRootCheck(nodes, path, handlers) ==
  LET r == addRouteLoop(nodes, splitPath(path), 0, 1, TRUE, handlers) IN
  IF r.err # "none" THEN r
  ELSE IF path = <<>> \/ path = <<Slash>>
    THEN [nodes |-> [r.nodes EXCEPT ![1].Handlers = handlers], err |-> "none"]
  ELSE r

\* NodeTree.addRoute: the tree it leaves and the panic it raises, if any.
addRoute(nodes, path, handlers) ==
  LET r == addRouteLoop(nodes, splitPath(path), 0, 1, TRUE, handlers) IN
  IF r.err # "none" THEN r
  ELSE IF path = <<>> \/ path = <<Slash>>
    THEN IF LenChain(r.nodes[1].Handlers) > 0
           THEN [nodes |-> r.nodes, err |-> "RootAlreadyRegistered"]
           ELSE [nodes |-> [r.nodes EXCEPT ![1].Handlers = handlers], err |-> "none"]
  ELSE r

---------------------------------------------------------------------------
(* Find *)

\* A Params slice: its backing array as far as it was ever written, and its
\* length.  Truncating keeps the array; appending writes at index len.
EmptyParams == [arr |-> <<>>, len |-> 0]

AppendParam(ps, p) ==
  [arr |-> SubSeq(ps.arr, 1, ps.len) \o <<p>> \o SubSeq(ps.arr, ps.len + 2, Len(ps.arr)),
   len |-> ps.len + 1]

\* (*params)[:n] is in range when n does not exceed the capacity, which is at
\* least the length the slice ever had.
ResliceOK(ps, n) == n <= Len(ps.arr)
Reslice(ps, n) == [arr |-> ps.arr, len |-> n]

Ret(handler, params, skipped) ==
  [handler |-> handler, params |-> params, skipped |-> skipped, panic |-> FALSE]
Panic(params, skipped) ==
  [handler |-> NilChain, params |-> params, skipped |-> skipped, panic |-> TRUE]

\* The records findNode pushes before it descends into a static child: one per
\* Parameter or Wildcard child of the node, in child order.
RECURSIVE SkippedOf(_, _, _, _, _)
SkippedOf(nodes, ch, k, index, paramsCount) ==
  IF k > Len(ch) THEN <<>>
  ELSE (IF nodes[ch[k]].NodeType \in {Parameter, Wildcard}
          THEN << [node |-> ch[k], segmentIdx |-> index, paramsCount |-> paramsCount] >>
          ELSE <<>>)
       \o SkippedOf(nodes, ch, k + 1, index, paramsCount)

\* The first Wildcard child of a node (an index into its Children), 0 if none.
FirstWildcard(nodes, ch) ==
  IF \E k \in 1..Len(ch) : nodes[ch[k]].NodeType = Wildcard
    THEN CHOOSE k \in 1..Len(ch) :
           /\ nodes[ch[k]].NodeType = Wildcard
           /\ \A j \in 1..(k-1) : nodes[ch[j]].NodeType # Wildcard
    ELSE 0

RECURSIVE findNode(_, _, _, _, _, _)
RECURSIVE tryBacktrack(_, _, _, _)
RECURSIVE staticLoop(_, _, _, _, _, _, _)
RECURSIVE paramLoop(_, _, _, _, _, _, _)

\* The third loop of findNode: the first Wildcard child takes the rest of the path.
wildcardLoop(nodes, node, segments, index, params, skipped) ==
  LET ch == nodes[node].Children
      k == FirstWildcard(nodes, ch)
  IN IF k = 0 THEN tryBacktrack(nodes, segments, params, skipped)
     ELSE LET child == nodes[ch[k]] IN
          IF Len(child.Path) < 1 THEN Panic(params, skipped)
          ELSE Ret(child.Handlers,
                   AppendParam(params,
                     [Key |-> Tail(child.Path),
                      Value |-> Join(SubSeq(segments, index + 1, Len(segments)))]),
                   skipped)

\* The second loop of findNode, from child k on.
paramLoop(nodes, node, segments, index, k, params, skipped) ==
  LET ch == nodes[node].Children IN
  IF k > Len(ch) THEN wildcardLoop(nodes, node, segments, index, params, skipped)
  ELSE LET child == nodes[ch[k]] IN
    IF child.NodeType # Parameter
      THEN paramLoop(nodes, node, segments, index, k + 1, params, skipped)
    ELSE IF Len(child.Path) < 1 THEN Panic(params, skipped)
    ELSE
      LET originalParamsLen == params.len
          r == findNode(nodes, ch[k], segments,
                        AppendParam(params, [Key |-> Tail(child.Path),
                                             Value |-> segments[index + 1]]),
                        index + 1, skipped)
      IN IF r.panic \/ ~r.handler.isNil THEN r
         ELSE IF ~ResliceOK(r.params, originalParamsLen) THEN Panic(r.params, r.skipped)
         ELSE paramLoop(nodes, node, segments, index, k + 1,
                        Reslice(r.params, originalParamsLen), r.skipped)

\* staticLoop without the static pass: parameter children are tried first.
staticLoop_Skipped(nodes, node, segments, index, k, params, skipped) ==
  paramLoop(nodes, node, segments, index, 1, params, skipped)

\* staticLoop comparing the node type only: a static child matches any segment.
staticLoop_AnyStatic(nodes, node, segments, index, k, params, skipped) ==
  LET ch == nodes[node].Children IN
  IF k > Len(ch) THEN paramLoop(nodes, node, segments, index, 1, params, skipped)
  ELSE LET child == nodes[ch[k]] IN
    IF ~(child.NodeType = Static)
      THEN staticLoop(nodes, node, segments, index, k + 1, params, skipped)
    ELSE
      LET r == findNode(nodes, ch[k], segments, params, index + 1,
                        skipped \o SkippedOf(nodes, ch, 1, index, params.len))
      IN IF r.panic \/ ~r.handler.isNil THEN r
         ELSE staticLoop(nodes, node, segments, index, k + 1, r.params, r.skipped)

\* The first loop of findNode, from child k on.
staticLoop(nodes, node, segments, index, k, params, skipped) ==
  LET ch == nodes[node].Children IN
  IF k > Len(ch) THEN paramLoop(nodes, node, segments, index, 1, params, skipped)
  ELSE LET child == nodes[ch[k]] IN
    IF ~(child.NodeType = Static /\ child.Path = segments[index + 1])
      THEN staticLoop(nodes, node, segments, index, k + 1, params, skipped)
    ELSE
      LET r == findNode(nodes, ch[k], segments, params, index + 1,
                        skipped \o SkippedOf(nodes, ch, 1, index, params.len))
      IN IF r.panic \/ ~r.handler.isNil THEN r
         ELSE staticLoop(nodes, node, segments, index, k + 1, r.params, r.skipped)

\* findNode with the end-of-path test off by one (index > len(segments)):
\* segments[index] is then read one past the end.
findNode_OffByOne(nodes, node, segments, params, index, skipped) ==
  IF \/ index > Len(segments)
     \/ (index < Len(segments) /\ segments[index + 1] = <<>> /\ index = Len(segments) - 1)
    THEN IF LenChain(nodes[node].Handlers) > 0
           THEN Ret(nodes[node].Handlers, params, skipped)
           ELSE tryBacktrack(nodes, segments, params, skipped)
    ELSE IF index >= Len(segments) THEN Panic(params, skipped)
    ELSE staticLoop(nodes, node, segments, index, 1, params, skipped)

findNode_NoTrailingSlash(nodes, node, segments, params, index, skipped) ==
  IF index >= Len(segments)
    THEN IF LenChain(nodes[node].Handlers) > 0
           THEN Ret(nodes[node].Handlers, params, skipped)
           ELSE tryBacktrack(nodes, segments, params, skipped)
    ELSE staticLoop(nodes, node, segments, index, 1, params, skipped)

findNode(nodes, node, segments, params, index, skipped) ==
  IF \/ index >= Len(segments)
     \/ (segments[index + 1] = <<>> /\ index = Len(segments) - 1)
    THEN IF LenChain(nodes[node].Handlers) > 0
           THEN Ret(nodes[node].Handlers, params, skipped)
           ELSE tryBacktrack(nodes, segments, params, skipped)
    ELSE staticLoop(nodes, node, segments, index, 1, params, skipped)

tryBacktrack(nodes, segments, params, skipped) ==
  IF Len(skipped) = 0 THEN Ret(NilChain, params, skipped)
  ELSE
    LET sk == skipped[Len(skipped)]
        rest == SubSeq(skipped, 1, Len(skipped) - 1)
        n == nodes[sk.node]
    IN IF ~ResliceOK(params, sk.paramsCount) THEN Panic(params, rest)
       ELSE LET ps == Reslice(params, sk.paramsCount) IN
         IF n.NodeType = Parameter
           THEN IF sk.segmentIdx >= Len(segments) \/ Len(n.Path) < 1
                  THEN Panic(ps, rest)
                  ELSE findNode(nodes, sk.node, segments,
                                AppendParam(ps, [Key |-> Tail(n.Path),
                                                 Value |-> segments[sk.segmentIdx + 1]]),
                                sk.segmentIdx + 1, rest)
         ELSE IF n.NodeType = Wildcard
           THEN IF sk.segmentIdx > Len(segments) \/ Len(n.Path) < 1
                  THEN Panic(ps, rest)
                  ELSE Ret(n.Handlers,
                           AppendParam(ps,
                             [Key |-> Tail(n.Path),
                              Value |-> Join(SubSeq(segments, sk.segmentIdx + 1,
                                                    Len(segments)))]),
                           rest)
         ELSE findNode(nodes, sk.node, segments, ps, sk.segmentIdx + 1, rest)

\* NodeTree.Find: the handler chain and Params it returns, or a panic.
Find(nodes, path) ==
  LET r == findNode(nodes, 1, splitPath(path), EmptyParams, 0, <<>>) IN
  [handler |-> r.handler,
   params |-> SubSeq(r.params.arr, 1, r.params.len),
   panic |-> r.panic]

---------------------------------------------------------------------------
(* The state machine *)

VARIABLES
  tree,     \* the nodes of the NodeTree, tree[1] being nt.Root
  routes,   \* history: the registrations addRoute accepted, in call order
  lookups,  \* the number of Find calls made so far
  last,     \* the last call: its operation, its argument and what it returned
  trees,    \* engine.trees: the method registry, one [Method, nodes] per method
  calls,    \* the Find calls in flight, one per request-handling goroutine
  heap,     \* the Params and the skipped-node stack each Find call allocated
  groups,   \* the RouterGroups, groups[1] being the engine's own
  writer,   \* the responseWriter of one request, and what its connection got
  ws        \* one WebSocket Conn, the two ends of its connection, its callers

vars == <<tree, routes, lookups, last, trees, calls, heap, groups, writer, ws>>

\* make(methodTrees, 0, 9)
NoTrees == <<>>

\* The RouterGroup NewEngine builds: no handlers, base path "/".  The other
\* fields are history: the chain the group got when Group() made it (what its
\* parent had then and what Group() was given) and the handlers Use() added.
RootGroup == [Handlers |-> NilChain, BasePath |-> <<Slash>>,
              inherited |-> <<>>, given |-> <<>>, used |-> <<>>]

\* The goroutines that serve requests, none of which has a call in flight.
Goroutines == {1, 2}
Idle == [pc |-> "idle"]
NoCalls == [g \in Goroutines |-> Idle]

\* make(Params, 0) and make([]skippedNode, 0, 2)
NewObjects == [params |-> EmptyParams, skipped |-> <<>>]
NoHeap == [g \in Goroutines |-> NewObjects]

\* Segments a registered path is made of, and segments of a request path.
RegSegs == { <<"a">>, <<"b">>, <<Colon, "x">>, <<Star, "w">>, <<>> }
ReqSegs == { <<"a">>, <<"b">>, <<>> }

SegSeqs(S, n) == UNION { [1..k -> S] : k \in 1..n }
PathOf(segs) == <<Slash>> \o Join(segs)

RegPaths == { <<>> } \cup { PathOf(s) : s \in SegSeqs(RegSegs, MaxSegs) }
\* A request path may be one segment longer than any registered path.
ReqPaths == { <<>> } \cup { PathOf(s) : s \in SegSeqs(ReqSegs, MaxSegs + 1) }

\* The chain passed by the n-th registration: a handler of its own.
HandlerInputs(n) == { Chain(<<n>>) }

NoCall == [op |-> "none", path |-> <<>>, handlers |-> NilChain,
           params |-> <<>>, err |-> "none"]

\* A []byte: nil, or a slice holding bytes (0..255).
NilBytes == [isNil |-> TRUE, bytes |-> <<>>]
MakeBytes(bytes) == [isNil |-> FALSE, bytes |-> bytes]

\* A WebSocket Conn on a connection just upgraded.  closeSentBy (the
\* goroutine that set closeSent) and closed (conn.Close was called) belong to
\* the connection and its callers; wire is what was written to the
\* connection, write by write; unread is what the connection holds for
\* ReadMessage; frames, taken, from and reads are history: the frames that
\* arrived, how many of them were read, the first frame of the ReadMessage
\* call under way, and what each ReadMessage call returned.
NewConn ==
  [closeSent |-> FALSE, closeSentBy |-> 0, writeMu |-> 0, closed |-> FALSE,
   fragmentBuffer |-> NilBytes, fragmentOpCode |-> 0,
   wire |-> <<>>, unread |-> <<>>,
   frames |-> <<>>, taken |-> 0, from |-> 1, reads |-> <<>>]

\* The responseWriter NewResponseWriter builds on a connection.  buf is what
\* the bufio.Writer holds, conn what the connection has received; calls is
\* history: the calls made on the writer, with what they returned.
noWritten == -1
defaultStatus == 200
NoHeader == [k \in { "Content-Length", "Transfer-Encoding", "X-Trace" } |-> <<>>]
NewResponseWriter ==
  [size |-> noWritten, status |-> defaultStatus, header |-> NoHeader,
   headerSent |-> FALSE, buf |-> <<>>, conn |-> <<>>, calls |-> <<>>]

Init ==
  /\ tree = NewNodeTree
  /\ routes = <<>>
  /\ lookups = 0
  /\ last = NoCall
  /\ trees = NoTrees
  /\ calls = NoCalls
  /\ heap = NoHeap
  /\ groups = << RootGroup >>
  /\ writer = NewResponseWriter
  /\ ws = NewConn

\* A panic ends the program: nothing is called after one.
Running == last.err = "none"

\* Routes are registered at startup, before the first lookup is served.
AddRoute(path, handlers) ==
  /\ Running
  /\ lookups = 0
  /\ Len(routes) < MaxRoutes
  /\ LET r == addRoute(tree, path, handlers) IN
       /\ tree' = r.nodes
       /\ routes' = IF r.err = "none"
                      THEN Append(routes, [path |-> path, handlers |-> handlers])
                      ELSE routes
       /\ last' = [op |-> "addRoute", path |-> path, handlers |-> handlers,
                   params |-> <<>>, err |-> r.err]
  /\ UNCHANGED <<lookups, trees, calls, heap, groups, writer, ws>>

FindPath(path) ==
  /\ Running
  /\ lookups < MaxLookups
  /\ lookups' = lookups + 1
  /\ LET r == Find(tree, path) IN
       last' = [op |-> "Find", path |-> path, handlers |-> r.handler,
                params |-> r.params,
                err |-> IF r.panic THEN "panic" ELSE "none"]
  /\ UNCHANGED <<tree, routes, trees, calls, heap, groups, writer, ws>>

Next ==
  \/ \E path \in RegPaths : \E h \in HandlerInputs(Len(routes) + 1) : AddRoute(path, h)
  \/ \E path \in ReqPaths : FindPath(path)

Spec == Init /\ [][Next]_vars

---------------------------------------------------------------------------
(* Registration alone, with two names for a parameter and for a wildcard *)

NamedSegs == { <<"a">>, <<Colon, "x">>, <<Colon, "y">>, <<Star, "w">>, <<Star, "v">> }
NamedPaths == { PathOf(s) : s \in SegSeqs(NamedSegs, MaxSegs) }

RegNext ==
  \E path \in NamedPaths : \E h \in HandlerInputs(Len(routes) + 1) : AddRoute(path, h)

RegSpec == Init /\ [][RegNext]_vars

---------------------------------------------------------------------------
(* Registration and lookup with two names for a wildcard *)

WildSegs == { <<"a">>, <<Colon, "x">>, <<Star, "w">>, <<Star, "v">> }
WildPaths == { PathOf(s) : s \in SegSeqs(WildSegs, MaxSegs) }

WildNext ==
  \/ \E path \in WildPaths : \E h \in HandlerInputs(Len(routes) + 1) : AddRoute(path, h)
  \/ \E path \in ReqPaths : FindPath(path)

WildSpec == Init /\ [][WildNext]_vars

---------------------------------------------------------------------------
(* Engine: the method registry and the dispatch of a request *)

\* Node.addRoute: the loop of NodeTree.addRoute, and a root case that tells
\* "/" only.
Node_addRoute(nodes, path, handlers) ==
  LET r == addRouteLoop(nodes, splitPath(path), 0, 1, TRUE, handlers) IN
  IF r.err # "none" THEN r
  ELSE IF Len(path) = 1 /\ path = <<Slash>>
    THEN IF LenChain(r.nodes[1].Handlers) > 0
           THEN [nodes |-> r.nodes, err |-> "RootAlreadyRegistered"]
           ELSE [nodes |-> [r.nodes EXCEPT ![1].Handlers = handlers], err |-> "none"]
  ELSE r

\* methodTrees.get with the method ignored: the first tree serves every method.
get_AnyMethod(mtrees, method) ==
  IF Len(mtrees) > 0 THEN 1 ELSE 0

get_Never(mtrees, method) == 0

\* methodTrees.get: the place of the first tree of the method, 0 for nil.
get(mtrees, method) ==
  IF \E i \in 1..Len(mtrees) : mtrees[i].Method = method
    THEN CHOOSE i \in 1..Len(mtrees) :
           /\ mtrees[i].Method = method
           /\ \A j \in 1..(i-1) : mtrees[j].Method # method
    ELSE 0

\* new(Node) with Path "/": the node type is the zero value, Static.
NewEngineRoot == << [Path |-> <<Slash>>, NodeType |-> Static,
                     Handlers |-> NilChain, Children |-> <<>>] >>

\* Engine.addRoute: the registry it leaves and the panic it raises, if any.
Engine_addRoute(mtrees, method, path, handlers) ==
  LET i == get(mtrees, method)
      trees1 == IF i = 0
                  THEN Append(mtrees, [Method |-> method, nodes |-> NewEngineRoot])
                  ELSE mtrees
      j == IF i = 0 THEN Len(trees1) ELSE i
      r == Node_addRoute(trees1[j].nodes, path, handlers)
  IN [trees |-> [trees1 EXCEPT ![j].nodes = r.nodes], err |-> r.err]

abortIndex == 63

\* A Context after reset(): no handlers, no Params, index -1.  `executed`
\* lists the handlers called so far.
ResetContext ==
  [handlers |-> NilChain, Params |-> <<>>, index |-> -1, executed |-> <<>>, panic |-> FALSE]

\* The loop of Context.Next, the handlers themselves leaving the context alone.
RECURSIVE NextLoop(_)
NextLoop(c) ==
  IF c.index < LenChain(c.handlers)
    THEN NextLoop([c EXCEPT !.executed = Append(@, c.handlers.fns[c.index + 1]),
                            !.index = @ + 1])
    ELSE c

\* Context.Next
ContextNext(c) == NextLoop([c EXCEPT !.index = @ + 1])

\* Context.Abort
Abort(c) == [c EXCEPT !.index = abortIndex]

\* The loop of handleHttpRequest from tree i (1-based) on.
RECURSIVE handleLoop(_, _, _, _, _)
handleLoop(mtrees, i, c, method, path) ==
  IF i > Len(mtrees) THEN Abort(c)
  ELSE IF mtrees[i].Method # method THEN handleLoop(mtrees, i + 1, c, method, path)
  ELSE LET r == Find(mtrees[i].nodes, path) IN
    IF r.panic THEN [c EXCEPT !.panic = TRUE]
    ELSE IF ~r.handler.isNil
      THEN ContextNext([c EXCEPT !.handlers = r.handler, !.Params = r.params])
    ELSE handleLoop(mtrees, i + 1, c, method, path)

\* Engine.handleHttpRequest on a context just reset: the context it leaves.
handleHttpRequest(mtrees, method, path) ==
  handleLoop(mtrees, 1, ResetContext, method, path)

Methods == { "GET", "POST" }

\* The chain passed by the n-th registration through the engine: a handler of
\* its own, or no handler at all (a route declared without handlers).
EngineHandlerInputs(n) == { Chain(<<n>>), Chain(<<>>) }

\* Request paths served by the engine.
EngineReqPaths == { <<>> } \cup { PathOf(s) : s \in SegSeqs(ReqSegs, MaxSegs) }

EngineAddRoute(method, path, handlers) ==
  /\ Running
  /\ lookups = 0
  /\ Len(routes) < MaxEngineRoutes
  /\ LET r == Engine_addRoute(trees, method, path, handlers) IN
       /\ trees' = r.trees
       /\ routes' = IF r.err = "none"
                      THEN Append(routes, [method |-> method, path |-> path,
                                           handlers |-> handlers])
                      ELSE routes
       /\ last' = [op |-> "Engine.addRoute", method |-> method, path |-> path,
                   handlers |-> handlers, err |-> r.err]
  /\ UNCHANGED <<tree, lookups, calls, heap, groups, writer, ws>>

HandleHttpRequest(method, path) ==
  /\ Running
  /\ lookups < MaxLookups
  /\ lookups' = lookups + 1
  /\ LET c == handleHttpRequest(trees, method, path) IN
       last' = [op |-> "handleHttpRequest", method |-> method, path |-> path,
                handlers |-> c.handlers, params |-> c.Params, index |-> c.index,
                executed |-> c.executed,
                err |-> IF c.panic THEN "panic" ELSE "none"]
  /\ UNCHANGED <<tree, routes, trees, calls, heap, groups, writer, ws>>

EngineNext ==
  \/ \E method \in Methods : \E path \in RegPaths :
       \E h \in EngineHandlerInputs(Len(routes) + 1) : EngineAddRoute(method, path, h)
  \/ \E method \in Methods : \E path \in EngineReqPaths : HandleHttpRequest(method, path)

EngineSpec == Init /\ [][EngineNext]_vars

---------------------------------------------------------------------------
(* RouterGroup: Use, Group and handle *)

Dot == "."

\* The loop of path.Clean over the segments of a path: "" and "." are
\* dropped, ".." drops the segment before it, or stays when the path is not
\* rooted and nothing is left to drop.
RECURSIVE CleanSegs(_, _, _)
CleanSegs(segs, out, rooted) ==
  IF segs = <<>> THEN out
  ELSE LET s == segs[1] IN
    IF s = <<>> \/ s = <<Dot>> THEN CleanSegs(Tail(segs), out, rooted)
    ELSE IF s = <<Dot, Dot>>
      THEN IF out # <<>> /\ out[Len(out)] # <<Dot, Dot>>
             THEN CleanSegs(Tail(segs), SubSeq(out, 1, Len(out) - 1), rooted)
           ELSE IF rooted THEN CleanSegs(Tail(segs), out, rooted)
           ELSE CleanSegs(Tail(segs), Append(out, s), rooted)
    ELSE CleanSegs(Tail(segs), Append(out, s), rooted)

\* path.Clean
Clean(p) ==
  IF p = <<>> THEN <<Dot>>
  ELSE LET rooted == p[1] = Slash
           out == CleanSegs(Split(p), <<>>, rooted)
       IN IF rooted THEN <<Slash>> \o Join(out)
          ELSE IF out = <<>> THEN <<Dot>> ELSE Join(out)

\* path.Join of two elements: empty elements are ignored.
pathJoin(a, b) ==
  IF a = <<>> /\ b = <<>> THEN <<>>
  ELSE IF a = <<>> THEN Clean(b)
  ELSE IF b = <<>> THEN Clean(a)
  ELSE Clean(a \o <<Slash>> \o b)

joinsPath(absolutePath, relativePath) ==
  IF absolutePath = <<>> THEN relativePath ELSE pathJoin(absolutePath, relativePath)

calculateAbseloutPath(r, path) == joinsPath(r.BasePath, path)

\* combineHandlers with the handlers passed put before the group's.
combineHandlers_Reversed(r, handlers) == Chain(handlers \o r.Handlers.fns)

\* combineHandlers: a new chain, the group's handlers and then the ones passed.
combineHandlers(r, handlers) == Chain(r.Handlers.fns \o handlers)

\* append(r.Handlers, handlerFunc...): a nil chain with nothing appended
\* stays nil.
AppendHandlers(h, handlerFunc) ==
  IF h.isNil /\ handlerFunc = <<>> THEN NilChain ELSE Chain(h.fns \o handlerFunc)

\* The handlers passed to Use, to Group and to a route method, named after
\* the call that passes them.
UseHandlers(g) == << <<"Use", g, Len(groups[g].used) + 1>> >>
GroupHandlers(n) == [i \in 1..n |-> <<"Group", Len(groups) + 1, i>>]
RouteHandlers(n) == [i \in 1..n |-> <<"route", Len(routes) + 1, i>>]

\* Relative paths given to Group() and to the route methods.
GroupRels == { <<Slash, "a">>, <<"a", Slash>>, <<>> }
RouteRels == { <<Slash, "b">>, <<Colon, "x", Slash>>, <<>> }

\* The Use calls made so far: each adds one handler.
RECURSIVE UsesFrom(_)
UsesFrom(g) == IF g > Len(groups) THEN 0 ELSE Len(groups[g].used) + UsesFrom(g + 1)

\* The middleware of a group as its history tells it.
Middleware(r) == r.inherited \o r.given \o r.used

\* RouterGroup.Use
GroupUse(g, handlerFunc) ==
  /\ Running
  /\ UsesFrom(1) < MaxUses
  /\ groups' = [groups EXCEPT ![g].Handlers = AppendHandlers(@, handlerFunc),
                              ![g].used = @ \o handlerFunc]
  /\ last' = [op |-> "Use", group |-> g, handlers |-> Chain(handlerFunc),
              err |-> "none"]
  /\ UNCHANGED <<tree, routes, lookups, trees, calls, heap, writer, ws>>

\* RouterGroup.Group
GroupGroup(g, relativePath, handlers) ==
  /\ Running
  /\ Len(groups) < MaxGroups
  /\ groups' = Append(groups,
                 [Handlers |-> combineHandlers(groups[g], handlers),
                  BasePath |-> calculateAbseloutPath(groups[g], relativePath),
                  inherited |-> Middleware(groups[g]),
                  given |-> handlers, used |-> <<>>])
  /\ last' = [op |-> "Group", group |-> g, rel |-> relativePath,
              handlers |-> Chain(handlers), err |-> "none"]
  /\ UNCHANGED <<tree, routes, lookups, trees, calls, heap, writer, ws>>

\* RouterGroup.handle
GroupHandle(g, httpMethod, relPath, handlers) ==
  /\ Running
  /\ Len(routes) < MaxGroupRoutes
  /\ LET abseloutPaht == calculateAbseloutPath(groups[g], relPath)
         chain == combineHandlers(groups[g], handlers)
         r == Engine_addRoute(trees, httpMethod, abseloutPaht, chain)
     IN /\ trees' = r.trees
        /\ routes' = IF r.err = "none"
                       THEN Append(routes, [method |-> httpMethod, path |-> abseloutPaht,
                                            handlers |-> chain, group |-> g,
                                            rel |-> relPath, own |-> handlers])
                       ELSE routes
        /\ last' = [op |-> "handle", group |-> g, method |-> httpMethod,
                    rel |-> relPath, own |-> handlers, path |-> abseloutPaht,
                    handlers |-> chain, err |-> r.err]
  /\ UNCHANGED <<tree, lookups, calls, heap, groups, writer, ws>>

GroupNext ==
  \/ \E g \in 1..Len(groups) : GroupUse(g, UseHandlers(g))
  \/ \E g \in 1..Len(groups) : \E rel \in GroupRels : \E n \in 0..1 :
       GroupGroup(g, rel, GroupHandlers(n))
  \/ \E g \in 1..Len(groups) : \E rel \in RouteRels : \E n \in 1..2 :
       GroupHandle(g, "GET", rel, RouteHandlers(n))

GroupSpec == Init /\ [][GroupNext]_vars

---------------------------------------------------------------------------
(* Params.Get and Params.ByName *)

\* Get scanning from the last entry: the latest capture of a key wins.
RECURSIVE GetLoop_Last(_, _, _)
GetLoop_Last(ps, name, i) ==
  IF i > Len(ps) THEN [value |-> <<>>, found |-> FALSE]
  ELSE IF ps[Len(ps) + 1 - i].Key = name
    THEN [value |-> ps[Len(ps) + 1 - i].Value, found |-> TRUE]
  ELSE GetLoop_Last(ps, name, i + 1)

\* The loop of Params.Get from entry i (1-based) on.
RECURSIVE GetLoop(_, _, _)
GetLoop(ps, name, i) ==
  IF i > Len(ps) THEN [value |-> <<>>, found |-> FALSE]
  ELSE IF ps[i].Key = name THEN [value |-> ps[i].Value, found |-> TRUE]
  ELSE GetLoop(ps, name, i + 1)

\* Params.Get
Get(ps, name) == GetLoop(ps, name, 1)

\* Params.ByName
ByName(ps, name) == Get(ps, name).value

\* Keys and values of the entries, the empty value included, and the names
\* asked for, one of which is no key.
ParamKeys == { <<"x">>, <<"w">> }
ParamValues == { <<"a">>, <<"b">>, <<>> }
ParamNames == ParamKeys \cup { <<"y">> }
ParamsInputs ==
  UNION { [1..n -> [Key : ParamKeys, Value : ParamValues]] : n \in 0..MaxParams }

\* One call of Get and ByName on a Params value; the calls keep no state, so
\* a behaviour makes one.
GetParam(ps, name) ==
  /\ last.op = "none"
  /\ last' = [op |-> "Get", params |-> ps, name |-> name,
              value |-> Get(ps, name).value, found |-> Get(ps, name).found,
              byName |-> ByName(ps, name), err |-> "none"]
  /\ UNCHANGED <<tree, routes, lookups, trees, calls, heap, groups, writer, ws>>

ParamsNext == \E ps \in ParamsInputs : \E name \in ParamNames : GetParam(ps, name)

ParamsSpec == Init /\ [][ParamsNext]_vars

---------------------------------------------------------------------------
(* Find step by step: calls in flight on one tree *)

\* What a call is about to do: enter findNode or tryBacktrack, run one turn of
\* one of the three loops of findNode, or return a chain to its caller.
Act(kind, node, index, k, handler) ==
  [kind |-> kind, node |-> node, index |-> index, k |-> k, handler |-> handler]

\* An activation of findNode waiting for the call it made from its static or
\* its parameter loop, with the originalParamsLen it saved.
Frame(kind, node, index, k, originalParamsLen) ==
  [kind |-> kind, node |-> node, index |-> index, k |-> k,
   originalParamsLen |-> originalParamsLen]

GoTo(c, o, act) == [c |-> [c EXCEPT !.act = act], o |-> o]
Crash(c, o) == [c |-> [c EXCEPT !.pc = "panic"], o |-> o]

\* The entry of findNode.
StepFindNode(nodes, c, o) ==
  LET a == c.act
      segments == c.segments
  IN IF \/ a.index >= Len(segments)
        \/ (segments[a.index + 1] = <<>> /\ a.index = Len(segments) - 1)
       THEN IF LenChain(nodes[a.node].Handlers) > 0
              THEN GoTo(c, o, Act("return", 0, 0, 0, nodes[a.node].Handlers))
              ELSE GoTo(c, o, Act("tryBacktrack", 0, 0, 0, NilChain))
       ELSE GoTo(c, o, Act("static", a.node, a.index, 1, NilChain))

\* One turn of the first loop of findNode.
StepStatic(nodes, c, o) ==
  LET a == c.act
      ch == nodes[a.node].Children
  IN IF a.k > Len(ch) THEN GoTo(c, o, Act("param", a.node, a.index, 1, NilChain))
     ELSE IF ~(nodes[ch[a.k]].NodeType = Static
               /\ nodes[ch[a.k]].Path = c.segments[a.index + 1])
       THEN GoTo(c, o, Act("static", a.node, a.index, a.k + 1, NilChain))
     ELSE [c |-> [c EXCEPT !.stack = Append(@, Frame("static", a.node, a.index, a.k, 0)),
                           !.act = Act("findNode", ch[a.k], a.index + 1, 0, NilChain)],
           o |-> [o EXCEPT !.skipped = @ \o SkippedOf(nodes, ch, 1, a.index, o.params.len)]]

\* StepParam whose loop does not move on from a child that is no Parameter.
StepParam_NoAdvance(nodes, c, o) ==
  LET a == c.act
      ch == nodes[a.node].Children
  IN IF a.k > Len(ch) THEN GoTo(c, o, Act("wildcard", a.node, a.index, 0, NilChain))
     ELSE IF nodes[ch[a.k]].NodeType # Parameter
       THEN GoTo(c, o, Act("param", a.node, a.index, a.k, NilChain))
     ELSE IF Len(nodes[ch[a.k]].Path) < 1 THEN Crash(c, o)
     ELSE [c |-> [c EXCEPT !.stack = Append(@, Frame("param", a.node, a.index, a.k,
                                                     o.params.len)),
                           !.act = Act("findNode", ch[a.k], a.index + 1, 0, NilChain)],
           o |-> [o EXCEPT !.params =
                    AppendParam(@, [Key |-> Tail(nodes[ch[a.k]].Path),
                                    Value |-> c.segments[a.index + 1]])]]

\* One turn of the second loop of findNode.
StepParam(nodes, c, o) ==
  LET a == c.act
      ch == nodes[a.node].Children
  IN IF a.k > Len(ch) THEN GoTo(c, o, Act("wildcard", a.node, a.index, 0, NilChain))
     ELSE IF nodes[ch[a.k]].NodeType # Parameter
       THEN GoTo(c, o, Act("param", a.node, a.index, a.k + 1, NilChain))
     ELSE IF Len(nodes[ch[a.k]].Path) < 1 THEN Crash(c, o)
     ELSE [c |-> [c EXCEPT !.stack = Append(@, Frame("param", a.node, a.index, a.k,
                                                     o.params.len)),
                           !.act = Act("findNode", ch[a.k], a.index + 1, 0, NilChain)],
           o |-> [o EXCEPT !.params =
                    AppendParam(@, [Key |-> Tail(nodes[ch[a.k]].Path),
                                    Value |-> c.segments[a.index + 1]])]]

\* The third loop of findNode.
StepWildcard(nodes, c, o) ==
  LET a == c.act
      ch == nodes[a.node].Children
      k == FirstWildcard(nodes, ch)
  IN IF k = 0 THEN GoTo(c, o, Act("tryBacktrack", 0, 0, 0, NilChain))
     ELSE IF Len(nodes[ch[k]].Path) < 1 THEN Crash(c, o)
     ELSE GoTo(c,
               [o EXCEPT !.params =
                  AppendParam(@, [Key |-> Tail(nodes[ch[k]].Path),
                                  Value |-> Join(SubSeq(c.segments, a.index + 1,
                                                        Len(c.segments)))])],
               Act("return", 0, 0, 0, nodes[ch[k]].Handlers))

\* tryBacktrack, up to the call of findNode it ends with.
StepTryBacktrack(nodes, c, o) ==
  IF Len(o.skipped) = 0 THEN GoTo(c, o, Act("return", 0, 0, 0, NilChain))
  ELSE
    LET sk == o.skipped[Len(o.skipped)]
        rest == SubSeq(o.skipped, 1, Len(o.skipped) - 1)
        n == nodes[sk.node]
        o1 == [o EXCEPT !.skipped = rest]
    IN IF ~ResliceOK(o.params, sk.paramsCount) THEN Crash(c, o1)
       ELSE LET ps == Reslice(o.params, sk.paramsCount) IN
         IF n.NodeType = Parameter
           THEN IF sk.segmentIdx >= Len(c.segments) \/ Len(n.Path) < 1
                  THEN Crash(c, [o1 EXCEPT !.params = ps])
                  ELSE GoTo(c,
                            [o1 EXCEPT !.params =
                               AppendParam(ps, [Key |-> Tail(n.Path),
                                                Value |-> c.segments[sk.segmentIdx + 1]])],
                            Act("findNode", sk.node, sk.segmentIdx + 1, 0, NilChain))
         ELSE IF n.NodeType = Wildcard
           THEN IF sk.segmentIdx > Len(c.segments) \/ Len(n.Path) < 1
                  THEN Crash(c, [o1 EXCEPT !.params = ps])
                  ELSE GoTo(c,
                            [o1 EXCEPT !.params =
                               AppendParam(ps,
                                 [Key |-> Tail(n.Path),
                                  Value |-> Join(SubSeq(c.segments, sk.segmentIdx + 1,
                                                        Len(c.segments)))])],
                            Act("return", 0, 0, 0, n.Handlers))
         ELSE GoTo(c, [o1 EXCEPT !.params = ps],
                   Act("findNode", sk.node, sk.segmentIdx + 1, 0, NilChain))

\* A return: to Find, which returns the chain with the Params as they are, or
\* to the loop of findNode that made the call.
StepReturn(nodes, c, o) ==
  LET h == c.act.handler IN
  IF Len(c.stack) = 0
    THEN [c |-> [c EXCEPT !.pc = "done", !.handler = h,
                          !.params = SubSeq(o.params.arr, 1, o.params.len)],
          o |-> o]
  ELSE
    LET f == c.stack[Len(c.stack)]
        c1 == [c EXCEPT !.stack = SubSeq(@, 1, Len(@) - 1)]
    IN IF ~h.isNil THEN GoTo(c1, o, Act("return", 0, 0, 0, h))
       ELSE IF f.kind = "static"
         THEN GoTo(c1, o, Act("static", f.node, f.index, f.k + 1, NilChain))
       ELSE IF ~ResliceOK(o.params, f.originalParamsLen) THEN Crash(c1, o)
       ELSE GoTo(c1, [o EXCEPT !.params = Reslice(@, f.originalParamsLen)],
                 Act("param", f.node, f.index, f.k + 1, NilChain))

\* One step of a call on its objects.
StepOf(nodes, c, o) ==
  IF c.act.kind = "findNode" THEN StepFindNode(nodes, c, o)
  ELSE IF c.act.kind = "static" THEN StepStatic(nodes, c, o)
  ELSE IF c.act.kind = "param" THEN StepParam(nodes, c, o)
  ELSE IF c.act.kind = "wildcard" THEN StepWildcard(nodes, c, o)
  ELSE IF c.act.kind = "tryBacktrack" THEN StepTryBacktrack(nodes, c, o)
  ELSE StepReturn(nodes, c, o)

\* One Params and one skipped-node stack for all calls, as objects kept
\* across calls would be.
NewSlot_Shared(g) == 1

\* Find allocates its Params and its skipped-node stack: the call of
\* goroutine g gets objects of its own.
NewSlot(g) == g

\* Registered paths and request paths of the calls in flight.
ConcRegPaths ==
  { PathOf(s) : s \in { << <<"a">> >>, << <<"a">>, <<"b">> >>,
                        << <<Colon, "x">>, <<"a">> >>, << <<"a">>, <<Colon, "x">> >>,
                        << <<Star, "w">> >> } }
ConcReqPaths ==
  { PathOf(s) : s \in { << <<"a">> >>, << <<"a">>, <<"a">> >>, << <<"b">>, <<"a">> >>,
                        << <<"a">>, <<"b">>, <<"a">> >> } }

\* Goroutine g enters Find.
StartFind(g, path) ==
  /\ Running
  /\ calls[g].pc = "idle"
  /\ lookups' = lookups + 1
  /\ calls' = [calls EXCEPT ![g] =
                 [pc |-> "run", path |-> path, segments |-> splitPath(path),
                  slot |-> NewSlot(g), stack |-> <<>>,
                  act |-> Act("findNode", 1, 0, 0, NilChain),
                  handler |-> NilChain, params |-> <<>>,
                  pops |-> 0, overlap |-> FALSE]]
  /\ heap' = [heap EXCEPT ![NewSlot(g)] = NewObjects]
  /\ UNCHANGED <<tree, routes, last, trees, groups, writer, ws>>

\* The call of goroutine g takes its next step.  Two fields keep its history:
\* pops counts the skipped-node records it popped, overlap tells whether
\* another call was in flight at one of its steps.
Step(g) ==
  /\ calls[g].pc = "run"
  /\ LET o == heap[calls[g].slot]
         r == StepOf(tree, calls[g], o)
         popped == calls[g].act.kind = "tryBacktrack" /\ Len(o.skipped) > 0
         other == \E h \in Goroutines \ {g} : calls[h].pc = "run"
     IN
       /\ calls' = [calls EXCEPT ![g] =
                      [r.c EXCEPT !.pops = IF popped THEN @ + 1 ELSE @,
                                  !.overlap = @ \/ other]]
       /\ heap' = [heap EXCEPT ![calls[g].slot] = r.o]
  /\ UNCHANGED <<tree, routes, lookups, last, trees, groups, writer, ws>>

ConcNext ==
  \/ \E path \in ConcRegPaths : \E h \in HandlerInputs(Len(routes) + 1) : AddRoute(path, h)
  \/ \E g \in Goroutines : \E path \in ConcReqPaths : StartFind(g, path)
  \/ \E g \in Goroutines : Step(g)

ConcSpec == Init /\ [][ConcNext]_vars

\* A lookup followed step by step on any tree of up to MaxTermRoutes routes.
FirstGoroutine == 1

TermAddRoute(path, handlers) ==
  /\ Len(routes) < MaxTermRoutes
  /\ AddRoute(path, handlers)

TermNext ==
  \/ \E path \in RegPaths : \E h \in HandlerInputs(Len(routes) + 1) : TermAddRoute(path, h)
  \/ \E path \in ReqPaths : StartFind(FirstGoroutine, path)
  \/ Step(FirstGoroutine)

\* A goroutine that is inside Find keeps running: its call takes its next
\* step as long as it has one.
TermSpec == Init /\ [][TermNext]_vars /\ WF_vars(Step(FirstGoroutine))

---------------------------------------------------------------------------
(* Context.Next and Context.Abort on a chain of handlers that use them *)

MaxInt8 == 127

\* The conversion to int8 and int8 arithmetic: the value wraps.
Int8(n) == ((n + MaxInt8 + 1) % (2 * (MaxInt8 + 1))) - (MaxInt8 + 1)

\* What a handler of a chain does with its context: nothing ("plain"), a
\* call of c.Next() ("next"), a call of c.Abort() ("abort"); "nil" is a nil
\* entry of the chain.
HandlerKinds == { "plain", "next", "abort", "nil" }

\* The context handleHttpRequest hands to Next, reset and with the chain
\* found, as Next's first statement c.index++ leaves it.  `executed` lists
\* what happened: a handler entered, called Abort, returned.  `stack` holds
\* the places of the handlers that called Next and wait for it to return.
ChainContext(kinds) ==
  [pc |-> "loop", handlers |-> Chain(kinds), index |-> Int8(-1 + 1),
   executed |-> <<>>, stack |-> <<>>]

Event(i, ev) == [at |-> i, ev |-> ev]

\* A Next without the loop: after a handler that returns without calling
\* Next, no further handler is called.
InvokePlain_NoAdvance(c) ==
  [c EXCEPT !.executed = @ \o << Event(c.index, "enter"), Event(c.index, "exit") >>,
            !.index = Int8(LenChain(c.handlers))]

\* h(c) and the c.index++ after it, for a handler that returns at once.
InvokePlain(c) ==
  [c EXCEPT !.executed = @ \o << Event(c.index, "enter"), Event(c.index, "exit") >>,
            !.index = Int8(@ + 1)]

\* h(c) and the c.index++ after it, for a handler that calls c.Abort().
InvokeAbort(c) ==
  [c EXCEPT !.executed = @ \o << Event(c.index, "enter"), Event(c.index, "abort"),
                                 Event(c.index, "exit") >>,
            !.index = Int8(Abort(c).index + 1)]

\* h(c) up to its call of c.Next(), and the c.index++ that Next starts with.
InvokeNext(c) ==
  [c EXCEPT !.executed = Append(@, Event(c.index, "enter")),
            !.stack = Append(@, c.index),
            !.index = Int8(@ + 1)]

\* A loop of Next ends.  The dispatcher's call returns; a handler's call
\* returns into the handler, the handler returns, and the loop that called
\* the handler does its c.index++.
ReturnFromNext(c) ==
  IF c.stack = <<>> THEN [c EXCEPT !.pc = "done"]
  ELSE [c EXCEPT !.executed = Append(@, Event(c.stack[Len(c.stack)], "exit")),
                 !.stack = SubSeq(@, 1, Len(@) - 1),
                 !.index = Int8(@ + 1)]

\* One turn of the loop of Context.Next: the index is an int8, and the chain
\* is indexed by it.
StepChain(c) ==
  IF Len(c.executed) >= MaxEvents THEN [c EXCEPT !.pc = "cut"]
  ELSE IF c.index < Int8(LenChain(c.handlers))
    THEN IF c.index < 0 THEN [c EXCEPT !.pc = "panic"]
         ELSE LET kind == c.handlers.fns[c.index + 1] IN
              IF kind = "nil" THEN [c EXCEPT !.index = Int8(@ + 1)]
              ELSE IF kind = "next" THEN InvokeNext(c)
              ELSE IF kind = "abort" THEN InvokeAbort(c)
              ELSE InvokePlain(c)
    ELSE ReturnFromNext(c)

\* Context.IsAborted
IsAborted(c) == c.index >= abortIndex

\* Chains of up to MaxShortChain entries of every kind, and chains around
\* abortIndex and around the int8 range with one kind of handler and at most
\* one handler that aborts.
ShortChains == UNION { [1..n -> HandlerKinds] : n \in 0..MaxShortChain }
LongLens == ((abortIndex - 1)..(abortIndex + 3)) \cup (MaxInt8..(MaxInt8 + 2))
AbortAt(n) == { 0, 1, 2, abortIndex, abortIndex + 1, abortIndex + 2, n } \cap (0..n)
LongChains ==
  { [i \in 1..n |-> IF i = p THEN "abort" ELSE filler] :
      n \in LongLens, p \in UNION { AbortAt(m) : m \in LongLens }, filler \in { "plain", "next" } }
ChainInputs == ShortChains \cup LongChains

\* handleHttpRequest found the chain and calls c.Next().
StartChain(kinds) ==
  /\ calls[FirstGoroutine].pc = "idle"
  /\ calls' = [calls EXCEPT ![FirstGoroutine] = ChainContext(kinds)]
  /\ UNCHANGED <<tree, routes, lookups, last, trees, heap, groups, writer, ws>>

ChainStep ==
  /\ calls[FirstGoroutine].pc = "loop"
  /\ calls' = [calls EXCEPT ![FirstGoroutine] = StepChain(@)]
  /\ UNCHANGED <<tree, routes, lookups, last, trees, heap, groups, writer, ws>>

ChainRunNext ==
  \/ \E kinds \in ChainInputs : StartChain(kinds)
  \/ ChainStep

ChainSpec == Init /\ [][ChainRunNext]_vars

---------------------------------------------------------------------------
(* responseWriter: the status line, the header block and the body *)

\* What is written is a sequence of pieces: the text of a status line or of
\* a header line, the CRLF that ends a line, and body bytes.
CRLF == [piece |-> "CRLF"]
StatusText(code) == [piece |-> "status", code |-> code]
HeaderText(key, value) == [piece |-> "header", key |-> key, value |-> value]
BodyBytes(data) == [i \in 1..Len(data) |-> [piece |-> "body", byte |-> data[i]]]

HeaderKeys == DOMAIN NoHeader

\* http.Header.Get: the first value of the key, "" when it has none.
HeaderGet(header, key) == IF header[key] = <<>> THEN "" ELSE header[key][1]

\* responseWriter.Written
Written(w) == w.size # noWritten

\* bufio.Writer.WriteString and Write, and Flush.
BufWrite(w, pieces) == [w EXCEPT !.buf = @ \o pieces]
BufFlush(w) == [w EXCEPT !.conn = @ \o w.buf, !.buf = <<>>]

\* The header lines of the keys in the order given, each value on its line.
RECURSIVE ValueLines(_, _)
ValueLines(key, values) ==
  IF values = <<>> THEN <<>>
  ELSE << HeaderText(key, values[1]), CRLF >> \o ValueLines(key, Tail(values))
RECURSIVE HeaderLines(_, _)
HeaderLines(header, order) ==
  IF order = <<>> THEN <<>>
  ELSE ValueLines(order[1], header[order[1]]) \o HeaderLines(header, Tail(order))

\* The orders in which a range over the header map may visit its keys.
KeyOrders(header) ==
  LET present == { k \in HeaderKeys : header[k] # <<>> } IN
  { o \in [1..Cardinality(present) -> present] :
      \A i \in DOMAIN o : \A j \in DOMAIN o : o[i] = o[j] => i = j }

\* writeHeaders that ends the header block with an empty line always.
writeHeaders_AlwaysBlank(w, order) ==
  LET w1 == BufWrite(w, << StatusText(w.status), CRLF >>)
      w2 == BufWrite(w1, HeaderLines(w.header, order))
      w3 == BufWrite(w2, << CRLF >>)
  IN [BufFlush(w3) EXCEPT !.headerSent = TRUE]

\* responseWriter.writeHeaders, the map visited in the order given.
writeHeaders(w, order) ==
  LET w1 == BufWrite(w, << StatusText(w.status), CRLF >>)
      w2 == BufWrite(w1, HeaderLines(w.header, order))
      w3 == IF HeaderGet(w.header, "Content-Length") = ""
               /\ HeaderGet(w.header, "Transfer-Encoding") = ""
              THEN BufWrite(w2, << CRLF >>)
              ELSE w2
  IN [BufFlush(w3) EXCEPT !.headerSent = TRUE]

\* WriteHeader that sets the status also after the response was written.
WriteHeader_Always(w, code) ==
  IF code > 0 /\ w.status # code THEN [w EXCEPT !.status = code] ELSE w

\* responseWriter.WriteHeader
WriteHeader(w, code) ==
  IF code > 0 /\ w.status # code
    THEN IF Written(w) THEN w ELSE [w EXCEPT !.status = code]
    ELSE w

\* WriteHeaderNow that writes the headers on every call.
WriteHeaderNow_Again(w, order) == writeHeaders([w EXCEPT !.size = 0], order)

\* responseWriter.WriteHeaderNow
WriteHeaderNow(w, order) ==
  IF ~Written(w)
    THEN LET w1 == [w EXCEPT !.size = 0] IN
         IF ~w1.headerSent THEN writeHeaders(w1, order) ELSE w1
    ELSE w

\* responseWriter.Write and WriteString: every byte is taken.
Write(w, data, order) ==
  LET w1 == WriteHeaderNow(w, order)
      w2 == BufFlush(BufWrite(w1, BodyBytes(data)))
  IN [w2 EXCEPT !.size = @ + Len(data)]

\* responseWriter.Flush
Flush(w, order) == BufFlush(WriteHeaderNow(w, order))

\* Hijack that refuses once the response counts as written.
Hijack_Written(w) ==
  LET err == Written(w) IN
  [w |-> IF w.size < 0 THEN [w EXCEPT !.size = 0] ELSE w,
   result |-> IF err THEN "error" ELSE "conn"]

\* responseWriter.Hijack: the writer it leaves, and whether it returned the
\* connection or an error.
Hijack(w) ==
  LET w1 == IF w.size < 0 THEN [w EXCEPT !.size = 0] ELSE w IN
  [w |-> w1, result |-> IF w1.headerSent THEN "error" ELSE "conn"]

\* Status codes passed to WriteHeader, data written, header values set.
StatusCodes == { 0, defaultStatus, 404, 500 }
BodyData == { <<>>, <<"h", "i">> }
HeaderValues == { "", "v" }

Called(w, op, arg, result) ==
  [w EXCEPT !.calls = Append(@, [op |-> op, arg |-> arg, result |-> result,
                                 status |-> w.status, written |-> Written(w)])]

CanCall == Len(writer.calls) < MaxWriterCalls

\* w.Header().Set(key, value) and w.Header().Add(key, value)
HeaderSet(key, value) ==
  /\ CanCall
  /\ writer' = Called([writer EXCEPT !.header[key] = << value >>], "Header.Set", key, "")
  /\ UNCHANGED <<tree, routes, lookups, last, trees, calls, heap, groups, ws>>

HeaderAdd(key, value) ==
  /\ CanCall
  /\ Len(writer.header[key]) = 1
  /\ writer' = Called([writer EXCEPT !.header[key] = Append(@, value)], "Header.Add", key, "")
  /\ UNCHANGED <<tree, routes, lookups, last, trees, calls, heap, groups, ws>>

CallWriteHeader(code) ==
  /\ CanCall
  /\ writer' = Called(WriteHeader(writer, code), "WriteHeader", code, "")
  /\ UNCHANGED <<tree, routes, lookups, last, trees, calls, heap, groups, ws>>

CallWriteHeaderNow ==
  /\ CanCall
  /\ \E order \in KeyOrders(writer.header) :
       writer' = Called(WriteHeaderNow(writer, order), "WriteHeaderNow", "", "")
  /\ UNCHANGED <<tree, routes, lookups, last, trees, calls, heap, groups, ws>>

CallWrite(data) ==
  /\ CanCall
  /\ \E order \in KeyOrders(writer.header) :
       writer' = Called(Write(writer, data, order), "Write", data, Len(data))
  /\ UNCHANGED <<tree, routes, lookups, last, trees, calls, heap, groups, ws>>

CallWriteString(s) ==
  /\ CanCall
  /\ \E order \in KeyOrders(writer.header) :
       writer' = Called(Write(writer, s, order), "WriteString", s, Len(s))
  /\ UNCHANGED <<tree, routes, lookups, last, trees, calls, heap, groups, ws>>

CallFlush ==
  /\ CanCall
  /\ \E order \in KeyOrders(writer.header) :
       writer' = Called(Flush(writer, order), "Flush", "", "")
  /\ UNCHANGED <<tree, routes, lookups, last, trees, calls, heap, groups, ws>>

CallHijack ==
  /\ CanCall
  /\ LET r == Hijack(writer) IN writer' = Called(r.w, "Hijack", "", r.result)
  /\ UNCHANGED <<tree, routes, lookups, last, trees, calls, heap, groups, ws>>

WriterNext ==
  \/ \E key \in HeaderKeys : \E value \in HeaderValues : HeaderSet(key, value)
  \/ \E key \in HeaderKeys : \E value \in HeaderValues : HeaderAdd(key, value)
  \/ \E code \in StatusCodes : CallWriteHeader(code)
  \/ CallWriteHeaderNow
  \/ \E data \in BodyData : CallWrite(data)
  \/ \E s \in BodyData : CallWriteString(s)
  \/ CallFlush
  \/ CallHijack

WriterSpec == Init /\ [][WriterNext]_vars

---------------------------------------------------------------------------
(* WebSocket frames: ReadMessage *)

OpContinuation == 0
OpText == 1
OpBinary == 2
OpClose == 8
OpPing == 9
OpPong == 10

\* The operators &, | and ^ on bytes, bit by bit.
RECURSIVE BitAnd(_, _)
BitAnd(a, b) ==
  IF a = 0 \/ b = 0 THEN 0
  ELSE (a % 2) * (b % 2) + 2 * BitAnd(a \div 2, b \div 2)
RECURSIVE BitOr(_, _)
BitOr(a, b) ==
  IF a = 0 /\ b = 0 THEN 0
  ELSE (IF a % 2 = 1 \/ b % 2 = 1 THEN 1 ELSE 0) + 2 * BitOr(a \div 2, b \div 2)
RECURSIVE BitXor(_, _)
BitXor(a, b) ==
  IF a = 0 /\ b = 0 THEN 0
  ELSE (((a % 2) + (b % 2)) % 2) + 2 * BitXor(a \div 2, b \div 2)

\* payload[i] ^= maskingKey[i%4] for every i.
Unmask(payload, maskingKey) ==
  [i \in 1..Len(payload) |-> BitXor(payload[i], maskingKey[((i - 1) % 4) + 1])]

\* The length the extended-length bytes give, most significant byte first.
RECURSIVE ExtendedLength(_, _)
ExtendedLength(extLen, sofar) ==
  IF extLen = <<>> THEN sofar
  ELSE ExtendedLength(Tail(extLen), sofar * 256 + extLen[1])

\* One turn of the loop of ReadMessage up to the unmasking: the frame at
\* the head of the bytes s.  waiting: io.ReadFull has not got all it asked
\* for yet.  used: the bytes taken off the connection.  (A 64-bit length
\* whose top bit is clear always fits in an int of 64 bits.)
Waiting == [waiting |-> TRUE]
ReadFrame(s) ==
  IF Len(s) < 2 THEN Waiting
  ELSE
    LET fin == BitAnd(s[1], 128) # 0
        opcode == BitAnd(s[1], 15)
        masked == BitAnd(s[2], 128) # 0
        len7 == BitAnd(s[2], 127)
        ext == IF len7 = 126 THEN 2 ELSE IF len7 = 127 THEN 8 ELSE 0
    IN
    IF Len(s) < 2 + ext THEN Waiting
    ELSE IF len7 = 127 /\ BitAnd(s[3], 128) # 0
      THEN [waiting |-> FALSE, used |-> 10,
            err |-> "invalid payload length: most significant bit must be 0"]
    ELSE
      LET payloadLen == IF ext = 0 THEN len7
                        ELSE ExtendedLength(SubSeq(s, 3, 2 + ext), 0)
          key == IF masked THEN 4 ELSE 0
          used == 2 + ext + key + payloadLen
      IN
      IF Len(s) < used THEN Waiting
      ELSE
        LET maskingKey == SubSeq(s, 2 + ext + 1, 2 + ext + key)
            raw == SubSeq(s, 2 + ext + key + 1, used)
        IN [waiting |-> FALSE, used |-> used, err |-> "none",
            fin |-> fin, opcode |-> opcode,
            payload |-> IF masked THEN Unmask(raw, maskingKey) ELSE raw]

\* handleFrame that takes a continuation frame with no message in progress
\* as the start of one.
handleFrame_AnyContinuation(c, f) ==
  IF f.opcode >= OpClose
    THEN IF ~f.fin
           THEN [c |-> c, returns |-> TRUE, err |-> "control frames cannot be fragmented"]
           ELSE [c |-> c, returns |-> TRUE, err |-> "none",
                 OpCode |-> f.opcode, Payload |-> f.payload]
  ELSE IF f.opcode = OpContinuation
    THEN LET buffer == c.fragmentBuffer.bytes \o f.payload IN
         IF f.fin
           THEN [c |-> [c EXCEPT !.fragmentBuffer = NilBytes],
                 returns |-> TRUE, err |-> "none",
                 OpCode |-> c.fragmentOpCode, Payload |-> buffer]
           ELSE [c |-> [c EXCEPT !.fragmentBuffer = MakeBytes(buffer)],
                 returns |-> FALSE]
  ELSE IF ~f.fin
    THEN [c |-> [c EXCEPT !.fragmentBuffer = MakeBytes(f.payload),
                          !.fragmentOpCode = f.opcode],
          returns |-> FALSE]
  ELSE [c |-> c, returns |-> TRUE, err |-> "none",
        OpCode |-> f.opcode, Payload |-> f.payload]

\* The rest of the turn, for the frame f: the Conn it leaves, and whether
\* ReadMessage returns (with an error, or with a message) or reads on.
handleFrame(c, f) ==
  IF f.opcode >= OpClose
    THEN IF ~f.fin
           THEN [c |-> c, returns |-> TRUE, err |-> "control frames cannot be fragmented"]
           ELSE [c |-> c, returns |-> TRUE, err |-> "none",
                 OpCode |-> f.opcode, Payload |-> f.payload]
  ELSE IF f.opcode = OpContinuation
    THEN IF c.fragmentBuffer.isNil
           THEN [c |-> c, returns |-> TRUE,
                 err |-> "received continuation frame but no fragmented message is in progress"]
           ELSE LET buffer == c.fragmentBuffer.bytes \o f.payload IN
                IF f.fin
                  THEN [c |-> [c EXCEPT !.fragmentBuffer = NilBytes],
                        returns |-> TRUE, err |-> "none",
                        OpCode |-> c.fragmentOpCode, Payload |-> buffer]
                  ELSE [c |-> [c EXCEPT !.fragmentBuffer = MakeBytes(buffer)],
                        returns |-> FALSE]
  ELSE IF ~f.fin
    THEN [c |-> [c EXCEPT !.fragmentBuffer = MakeBytes(f.payload),
                          !.fragmentOpCode = f.opcode],
          returns |-> FALSE]
  ELSE [c |-> c, returns |-> TRUE, err |-> "none",
        OpCode |-> f.opcode, Payload |-> f.payload]

\* What a ReadMessage call returned, with the frames it read (history).
Returned(c, r) ==
  LET upto == c.taken + 1 IN
  [c EXCEPT !.taken = upto, !.from = upto + 1,
            !.reads = Append(@, [err |-> r.err, from |-> c.from, upto |-> upto,
                                 OpCode |-> IF r.err = "none" THEN r.OpCode ELSE 0,
                                 Payload |-> IF r.err = "none" THEN r.Payload ELSE <<>>])]

\* The goroutine that calls ReadMessage again and again takes one frame
\* off the connection: one turn of the loop of ReadMessage.
ReadMessageTurn ==
  LET f == ReadFrame(ws.unread) IN
  /\ ~f.waiting
  /\ LET rest == SubSeq(ws.unread, f.used + 1, Len(ws.unread))
         c == [ws EXCEPT !.unread = rest]
     IN IF f.err # "none"
          THEN ws' = Returned(c, f)
          ELSE LET h == handleFrame(c, f) IN
               ws' = IF h.returns THEN Returned(h.c, h)
                     ELSE [h.c EXCEPT !.taken = @ + 1]
  /\ UNCHANGED <<tree, routes, lookups, last, trees, calls, heap, groups, writer>>

\* The frame a peer sends: the FIN bit and the opcode, the mask bit and the
\* length in 7, 16 or 64 bits, the masking key, the payload masked with it.
MaskingKey == << 55, 250, 33, 61 >>
LengthBytes(n, ext) ==
  IF ext = 0 THEN << >>
  ELSE [i \in 1..ext |-> IF i = ext THEN n % 256
                         ELSE IF i = ext - 1 THEN (n \div 256) % 256 ELSE 0]
PeerFrame(fin, opcode, payload, masked, ext) ==
  << BitOr(IF fin THEN 128 ELSE 0, opcode),
     BitOr(IF masked THEN 128 ELSE 0,
           IF ext = 0 THEN Len(payload) ELSE IF ext = 2 THEN 126 ELSE 127) >>
  \o LengthBytes(Len(payload), ext)
  \o (IF masked THEN MaskingKey \o Unmask(payload, MaskingKey) ELSE payload)

PeerPayloads == { <<>>, <<97>>, <<98, 99>> }
PeerFrames ==
  [fin : BOOLEAN, opcode : { OpContinuation, OpText, OpBinary }, payload : PeerPayloads]
  \cup [fin : BOOLEAN, opcode : { OpPing }, payload : { <<>> }]
PeerEncodings == { <<FALSE, 0>>, <<TRUE, 2>>, <<TRUE, 8>> }

\* A frame of the peer arrives on the connection.
FrameArrives(frame, enc) ==
  /\ Len(ws.frames) < MaxFrames
  /\ Len(ws.frames) - ws.taken < MaxUnreadFrames
  /\ ws' = [ws EXCEPT
       !.unread = @ \o PeerFrame(frame.fin, frame.opcode, frame.payload, enc[1], enc[2]),
       !.frames = Append(@, frame)]
  /\ UNCHANGED <<tree, routes, lookups, last, trees, calls, heap, groups, writer>>

ReadNext ==
  \/ \E frame \in PeerFrames : \E enc \in PeerEncodings : FrameArrives(frame, enc)
  \/ ReadMessageTurn

ReadSpec == Init /\ [][ReadNext]_vars

---------------------------------------------------------------------------
(* WebSocket frames: WriteMessage, WriteFragmentedMessage, Close *)

\* byte(n >> (8 * k))
RECURSIVE ShiftedByte(_, _)
ShiftedByte(n, k) == IF k = 0 THEN n % 256 ELSE ShiftedByte(n \div 256, k - 1)

\* The header WriteMessage and writeFrame build: the byte first, which is
\* 0x80|opcode or finBit|opcode, then the length in 7, 16 or 64 bits.
FrameHeader(first, payloadLen) ==
  IF payloadLen < 126 THEN << first, payloadLen % 256 >>
  ELSE IF payloadLen < 65536
    THEN << first, 126, ShiftedByte(payloadLen, 1), ShiftedByte(payloadLen, 0) >>
  ELSE << first, 127 >> \o [i \in 1..8 |-> ShiftedByte(payloadLen, 8 - i)]

\* The number of the call the goroutine g makes or made last, 0 before any.
CallNo(g) == IF "n" \in DOMAIN calls[g] THEN calls[g].n ELSE 0
AtPc(g, pc) == CallNo(g) > 0 /\ calls[g].pc = pc
Panicked == \E g \in Goroutines : AtPc(g, "panicked")
CanBegin(g) == calls[g].pc = "idle" /\ CallNo(g) < MaxConnCalls /\ ~Panicked

\* A frame with the opcode Close is on the connection, header and payload.
IsCloseHeader(chunk) ==
  chunk.part = "header" /\ BitAnd(chunk.bytes[1], 15) = OpClose
CloseFrames == { p \in DOMAIN ws.wire : IsCloseHeader(ws.wire[p]) /\ p < Len(ws.wire) }

\* The call the goroutine g begins.  closeBefore is history: a close frame
\* was on the connection when the call began.  wm is what WriteMessage or
\* WriteFragmentedMessage returned, ret what the call returned.
NewCall(g, op, opcode, payload, spare, fragmentSize, pc) ==
  [pc |-> pc, op |-> op, n |-> CallNo(g) + 1, opcode |-> opcode,
   payload |-> payload, spare |-> spare, fragmentSize |-> fragmentSize,
   offset |-> 0, frame |-> [fin |-> TRUE, opcode |-> opcode, payload |-> payload],
   closing |-> op \in { "Close", "CloseWithCode" },
   closeBefore |-> CloseFrames # {}, wm |-> "pending", ret |-> "pending"]

\* WriteMessage or WriteFragmentedMessage returns e (the deferred Unlock
\* runs); inside Close or CloseWithCode the connection is closed next.
Returns(call, e) ==
  IF call.closing THEN [call EXCEPT !.pc = "connClose", !.wm = e]
  ELSE [call EXCEPT !.pc = "idle", !.wm = e, !.ret = e]

\* c.writeMu.Lock() goes through for everyone.
CanLock_Always(g) == TRUE

\* c.writeMu.Lock() goes through when no goroutine holds the mutex.
CanLock(g) == ws.writeMu = 0

\* c.WriteMessage(opcode, payload)
BeginWriteMessage(g, opcode, payload) ==
  /\ CanBegin(g)
  /\ calls' = [calls EXCEPT ![g] =
       NewCall(g, "WriteMessage", opcode, payload, <<>>, 0, "lock")]
  /\ UNCHANGED <<tree, routes, lookups, last, trees, heap, groups, writer, ws>>

\* c.WriteFragmentedMessage(opcode, payload, fragmentSize), up to the lock.
\* spare: the bytes of the payload's array beyond its length, cap - len.
BeginWriteFragmentedMessage(g, opcode, payload, spare, fragmentSize) ==
  /\ CanBegin(g)
  /\ LET call == NewCall(g, "WriteFragmentedMessage", opcode, payload, spare,
                         fragmentSize, "lock")
     IN calls' = [calls EXCEPT ![g] =
          IF fragmentSize <= 0
            THEN Returns(call, "fragment size must be positive")
            ELSE call]
  /\ UNCHANGED <<tree, routes, lookups, last, trees, heap, groups, writer, ws>>

\* What the read of c.closeSent in Close and CloseWithCode gives: the read
\* is not ordered with the write another goroutine made under the mutex, so
\* it may still give false.
CloseSentRead(g) ==
  IF ws.closeSent /\ ws.closeSentBy # g THEN { TRUE, FALSE } ELSE { ws.closeSent }

\* c.Close() and c.CloseWithCode(statusCode, reason), up to the call of
\* WriteMessage or, when closeSent was read as true, of conn.Close.
BeginClose(g, op, payload) ==
  /\ CanBegin(g)
  /\ \E closeSent \in CloseSentRead(g) :
       calls' = [calls EXCEPT ![g] =
         IF ~closeSent
           THEN NewCall(g, op, OpClose, payload, <<>>, 0, "lock")
           ELSE [NewCall(g, op, OpClose, payload, <<>>, 0, "connClose")
                   EXCEPT !.wm = "skipped"]]
  /\ UNCHANGED <<tree, routes, lookups, last, trees, heap, groups, writer, ws>>

\* The payload CloseWithCode builds.
CloseWithCodePayload(statusCode, reason) ==
  << ShiftedByte(statusCode, 1), ShiftedByte(statusCode, 0) >> \o reason

\* The goroutine gets the mutex and goes on to the first conn.Write: the
\* test of closeSent and, in WriteFragmentedMessage, the first fragment.
Enter(g) ==
  /\ AtPc(g, "lock")
  /\ CanLock(g)
  /\ LET call == calls[g]
         totalLen == Len(call.payload)
     IN
     IF ws.closeSent
       THEN /\ calls' = [calls EXCEPT ![g] = Returns(call, "connection closed")]
            /\ ws' = [ws EXCEPT !.writeMu = 0]
     ELSE IF call.op # "WriteFragmentedMessage" \/ totalLen = 0
       THEN /\ calls' = [calls EXCEPT ![g].pc = "header"]
            /\ ws' = [ws EXCEPT !.writeMu = g]
     ELSE IF call.fragmentSize > totalLen + Len(call.spare)
       THEN /\ calls' = [calls EXCEPT ![g].pc = "panicked",
                                      ![g].wm = "panic: slice bounds out of range",
                                      ![g].ret = "panic: slice bounds out of range"]
            /\ ws' = [ws EXCEPT !.writeMu = 0]
     ELSE /\ calls' = [calls EXCEPT
                 ![g].pc = "header",
                 ![g].offset = call.fragmentSize,
                 ![g].frame = [fin |-> FALSE, opcode |-> call.opcode,
                               payload |-> SubSeq(call.payload \o call.spare, 1,
                                                  call.fragmentSize)]]
          /\ ws' = [ws EXCEPT !.writeMu = g]
  /\ UNCHANGED <<tree, routes, lookups, last, trees, heap, groups, writer>>

\* c.conn.Write(bytes) by the call of g on a connection that is open: the
\* bytes are on the connection, for ReadMessage at the other end to read.
ConnWrite(c, g, part, bytes) ==
  [c EXCEPT !.wire = Append(@, [g |-> g, n |-> calls[g].n, part |-> part, bytes |-> bytes]),
            !.unread = @ \o bytes]

\* c.conn.Write(header)
WriteHeaderBytes(g) ==
  /\ AtPc(g, "header")
  /\ LET call == calls[g]
         f == call.frame
         first == BitOr(IF f.fin THEN 128 ELSE 0, f.opcode)
     IN
     IF ws.closed
       THEN /\ calls' = [calls EXCEPT ![g] = Returns(call, "use of closed network connection")]
            /\ ws' = [ws EXCEPT !.writeMu = 0]
       ELSE /\ calls' = [calls EXCEPT ![g].pc = "payload"]
            /\ ws' = ConnWrite(ws, g, "header", FrameHeader(first, Len(f.payload)))
  /\ UNCHANGED <<tree, routes, lookups, last, trees, heap, groups, writer>>

\* c.conn.Write(payload) and what follows it: closeSent is set after a
\* close frame (in writeFrame only when FIN is set), then the call returns
\* or, in the loop of WriteFragmentedMessage, goes on to the next fragment.
WritePayloadBytes(g) ==
  /\ AtPc(g, "payload")
  /\ LET call == calls[g]
         f == call.frame
         totalLen == Len(call.payload)
         fragmented == call.op = "WriteFragmentedMessage"
         sent == ConnWrite(ws, g, "payload", f.payload)
         marked == IF f.opcode = OpClose /\ (fragmented => f.fin)
                     THEN [sent EXCEPT !.closeSent = TRUE, !.closeSentBy = g]
                     ELSE sent
         end == IF call.offset + call.fragmentSize > totalLen THEN totalLen
                ELSE call.offset + call.fragmentSize
     IN
     IF ws.closed
       THEN /\ calls' = [calls EXCEPT ![g] = Returns(call, "use of closed network connection")]
            /\ ws' = [ws EXCEPT !.writeMu = 0]
     ELSE IF fragmented /\ totalLen > 0 /\ call.offset < totalLen
       THEN /\ calls' = [calls EXCEPT
                 ![g].pc = "header",
                 ![g].offset = call.offset + call.fragmentSize,
                 ![g].frame = [fin |-> end = totalLen, opcode |-> OpContinuation,
                               payload |-> SubSeq(call.payload, call.offset + 1, end)]]
            /\ ws' = marked
     ELSE /\ calls' = [calls EXCEPT ![g] = Returns(call, "nil")]
          /\ ws' = [marked EXCEPT !.writeMu = 0]
  /\ UNCHANGED <<tree, routes, lookups, last, trees, heap, groups, writer>>

\* c.conn.Close() at the end of Close and CloseWithCode, and their return.
ConnClose(g) ==
  /\ AtPc(g, "connClose")
  /\ calls' = [calls EXCEPT
       ![g].pc = "idle",
       ![g].ret = IF calls[g].wm \notin { "nil", "skipped" } THEN calls[g].wm
                  ELSE IF ws.closed THEN "use of closed network connection"
                  ELSE "nil"]
  /\ ws' = [ws EXCEPT !.closed = TRUE]
  /\ UNCHANGED <<tree, routes, lookups, last, trees, heap, groups, writer>>

\* Two goroutines write to and close one Conn.
ConnOpCodes == { OpText, OpClose }
ConnPayloads == { <<>>, <<97, 98>> }
ConnFragmentSizes == { 0, 1 }

ConnNext ==
  \E g \in Goroutines :
    \/ \E opcode \in ConnOpCodes : \E payload \in ConnPayloads :
         BeginWriteMessage(g, opcode, payload)
    \/ \E opcode \in ConnOpCodes : \E payload \in ConnPayloads :
         \E fragmentSize \in ConnFragmentSizes :
           BeginWriteFragmentedMessage(g, opcode, payload, <<>>, fragmentSize)
    \/ BeginClose(g, "Close", <<>>)
    \/ BeginClose(g, "CloseWithCode", CloseWithCodePayload(1000, <<>>))
    \/ Enter(g)
    \/ WriteHeaderBytes(g)
    \/ WritePayloadBytes(g)
    \/ ConnClose(g)

ConnSpec == Init /\ [][ConnNext]_vars

\* One goroutine writes one fragmented message, and the frames it puts on
\* the connection are read with ReadMessage at the other end.
FragmentPayloads == { <<>>, <<97>>, <<97, 98, 99>> }
FragmentSpares == { <<>>, <<0>> }
FragmentSizes == 1..5

FragmentNext ==
  \/ /\ CallNo(FirstGoroutine) = 0
     /\ \E opcode \in { OpText, OpBinary } : \E payload \in FragmentPayloads :
          \E spare \in FragmentSpares : \E fragmentSize \in FragmentSizes :
            BeginWriteFragmentedMessage(FirstGoroutine, opcode, payload, spare,
                                        fragmentSize)
  \/ Enter(FirstGoroutine)
  \/ WriteHeaderBytes(FirstGoroutine)
  \/ WritePayloadBytes(FirstGoroutine)
  \/ ReadMessageTurn

FragmentSpec == Init /\ [][FragmentNext]_vars

---------------------------------------------------------------------------
(* Routes and request paths, as the claims speak of them *)

NonEmpty(segs) == SelectSeq(segs, LAMBDA s : s # <<>>)

\* The segments of a registered path: registration skips empty segments.
RouteSegs(path) == NonEmpty(splitPath(path))

\* The segments of a request path: an empty last segment ends the path.
ReqSegsOf(path) ==
  LET segs == splitPath(path) IN
  IF segs[Len(segs)] = <<>> THEN SubSeq(segs, 1, Len(segs) - 1) ELSE segs

IsParam(s) == s # <<>> /\ s[1] = Colon
IsWild(s) == s # <<>> /\ s[1] = Star
IsStatic(s) == s # <<>> /\ s[1] # Colon /\ s[1] # Star

\* 0 for a static segment, 1 for a parameter, 2 for a wildcard.
Rank(s) == IF IsParam(s) THEN 1 ELSE IF IsWild(s) THEN 2 ELSE 0

\* A route matches a request segment by segment: a static segment matches
\* itself, a parameter exactly one segment, a wildcard all that remain.
RECURSIVE Matches(_, _)
Matches(r, q) ==
  IF r = <<>> THEN q = <<>>
  ELSE IF q = <<>> THEN FALSE
  ELSE IF IsWild(r[1]) THEN Len(r) = 1
  ELSE IF IsParam(r[1]) THEN Matches(Tail(r), Tail(q))
  ELSE r[1] = q[1] /\ Matches(Tail(r), Tail(q))

\* Route r is of higher priority than route p: at the first segment where
\* their kinds differ, r has the stronger kind (static > parameter > wildcard).
RECURSIVE Higher(_, _)
Higher(r, p) ==
  IF r = <<>> \/ p = <<>> THEN FALSE
  ELSE IF Rank(r[1]) # Rank(p[1]) THEN Rank(r[1]) < Rank(p[1])
  ELSE Higher(Tail(r), Tail(p))

\* Request segments q are obtained from route segments r by substituting a
\* non-empty value for each parameter (one segment) and each wildcard (one or
\* more segments), every other segment being kept.
RECURSIVE IsInstance(_, _)
IsInstance(r, q) ==
  IF r = <<>> THEN q = <<>>
  ELSE IF q = <<>> THEN FALSE
  ELSE IF IsWild(r[1])
    THEN \E n \in 1..Len(q) :
           /\ \A i \in 1..n : q[i] # <<>>
           /\ IsInstance(Tail(r), SubSeq(q, n + 1, Len(q)))
  ELSE IF IsParam(r[1]) THEN q[1] # <<>> /\ IsInstance(Tail(r), Tail(q))
  ELSE r[1] = q[1] /\ IsInstance(Tail(r), Tail(q))

\* A registration path as the interface describes it: "/", or non-empty
\* segments with a wildcard, if any, in the last place.
WellFormed(path) ==
  LET segs == splitPath(path) IN
  \/ path = <<Slash>>
  \/ /\ \A i \in 1..Len(segs) : segs[i] # <<>>
     /\ \A i \in 1..(Len(segs) - 1) : ~IsWild(segs[i])

AllWellFormed == \A k \in 1..Len(routes) : WellFormed(routes[k].path)

\* Some accepted registration other than the k-th matches request q with a
\* higher priority than the k-th.
Outranked(k, q) ==
  \E j \in 1..Len(routes) :
    /\ j # k
    /\ Matches(RouteSegs(routes[j].path), q)
    /\ Higher(RouteSegs(routes[j].path), RouteSegs(routes[k].path))

---------------------------------------------------------------------------
(* C1 *)

\* C1: a lookup made right after addRoute(P, H) succeeded, for a path obtained
\* from P by substituting values for its parameter and wildcard segments,
\* returns H unless another registered route of higher priority matches the
\* path.  Stated for trees of well-formed routes only, the narrowest case
\* the claim covers.
C1_RoundTrip ==
  (last.op = "Find" /\ Len(routes) > 0 /\ AllWellFormed) =>
    LET k == Len(routes) IN
      (/\ IsInstance(splitPath(routes[k].path), splitPath(last.path))
       /\ ~Outranked(k, ReqSegsOf(last.path)))
      => last.handlers = routes[k].handlers

---------------------------------------------------------------------------
(* C2 *)

Parent(n) == CHOOSE m \in 1..Len(tree) :
               \E k \in 1..Len(tree[m].Children) : tree[m].Children[k] = n

\* The nodes from the root's child down to node n.
RECURSIVE PathTo(_)
PathTo(n) == IF n = 1 THEN <<>> ELSE Append(PathTo(Parent(n)), n)

\* The node that carries handler chain h.
NodeOf(h) == CHOOSE n \in 1..Len(tree) : tree[n].Handlers = h

\* The captures along the root-to-node path of node n for request segments q:
\* one per Parameter node, then the wildcard capture if n is a Wildcard.
RECURSIVE CapturesFrom(_, _, _)
CapturesFrom(path, q, i) ==
  IF i > Len(path) THEN <<>>
  ELSE LET nd == tree[path[i]] IN
    (IF nd.NodeType = Parameter
       THEN << [Key |-> Tail(nd.Path), Value |-> q[i]] >>
     ELSE IF nd.NodeType = Wildcard /\ i = Len(path)
       THEN << [Key |-> Tail(nd.Path), Value |-> Join(SubSeq(q, i, Len(q)))] >>
     ELSE <<>>)
    \o CapturesFrom(path, q, i + 1)

Captures(n, q) == CapturesFrom(PathTo(n), q, 1)

\* C2: when Find returns a non-empty chain, the Params are exactly the captures
\* along the path to the node whose handlers were returned.
C2_ParamsOfWinningPath ==
  (last.op = "Find" /\ LenChain(last.handlers) > 0) =>
    last.params = Captures(NodeOf(last.handlers), splitPath(last.path))

---------------------------------------------------------------------------
(* C3 *)

\* A route made of static and ':name' parameter segments.
StaticParamRoute(path) ==
  LET segs == splitPath(path) IN
  \A i \in 1..Len(segs) : IsStatic(segs[i]) \/ IsParam(segs[i])

\* [(name_1, v_1), ..., (name_k, v_k)]: the parameter names written in route
\* segments r with the values request segments q have in their places.
RECURSIVE ParamList(_, _)
ParamList(r, q) ==
  IF r = <<>> THEN <<>>
  ELSE (IF IsParam(r[1]) THEN << [Key |-> Tail(r[1]), Value |-> q[1]] >> ELSE <<>>)
       \o ParamList(Tail(r), Tail(q))

\* C3: for a registered route of static and parameter segments with chain H,
\* Find on the path with values v_i in the parameters' places returns H and
\* Params [(name_1, v_1), ..., (name_k, v_k)].  Stated for the lookups in which
\* no registered route of higher priority matches the path.
C3_ParamExtraction ==
  last.op = "Find" =>
    \A k \in 1..Len(routes) :
      (/\ StaticParamRoute(routes[k].path)
       /\ IsInstance(splitPath(routes[k].path), splitPath(last.path))
       /\ ~Outranked(k, ReqSegsOf(last.path)))
      => /\ last.handlers = routes[k].handlers
         /\ last.params = ParamList(splitPath(routes[k].path), splitPath(last.path))

---------------------------------------------------------------------------
(* C4 *)

\* A route of static segments ending in a wildcard segment.
StaticWildRoute(path) ==
  LET segs == splitPath(path) IN
  /\ IsWild(segs[Len(segs)])
  /\ \A i \in 1..(Len(segs) - 1) : IsStatic(segs[i])

\* C4: for a registered route ending in '*name' with chain H, Find on a path made
\* of the route's static prefix and one or more further segments returns H and
\* the single Param (name, the further segments joined with '/').  Stated for
\* the lookups in which no registered route of higher priority matches.
C4_WildcardCapture ==
  last.op = "Find" =>
    \A k \in 1..Len(routes) :
      LET r == splitPath(routes[k].path)
          q == splitPath(last.path)
      IN (/\ StaticWildRoute(routes[k].path)
          /\ IsInstance(r, q)
          /\ ~Outranked(k, ReqSegsOf(last.path)))
         => /\ last.handlers = routes[k].handlers
            /\ last.params = << [Key |-> Tail(r[Len(r)]),
                                 Value |-> Join(SubSeq(q, Len(r), Len(q)))] >>

---------------------------------------------------------------------------
(* C5 *)

\* A route of static segments only.
AllStatic(path) ==
  LET segs == splitPath(path) IN \A i \in 1..Len(segs) : IsStatic(segs[i])

\* C5: a request path matched by a registered all-static route gets that
\* route's handlers and no Param, also when a route with a parameter or
\* wildcard segment matches it too, whatever the registration order.
C5_StaticFirst ==
  last.op = "Find" =>
    \A k \in 1..Len(routes) :
      (AllStatic(routes[k].path) /\ RouteSegs(routes[k].path) = ReqSegsOf(last.path))
      => (last.handlers = routes[k].handlers /\ last.params = <<>>)

\* A lookup of a path that a static route and an earlier registered parameter
\* or wildcard route both match returned the static route's chain.
C5_Witness ==
  /\ last.op = "Find"
  /\ \E k \in 1..Len(routes) :
       /\ AllStatic(routes[k].path)
       /\ RouteSegs(routes[k].path) = ReqSegsOf(last.path)
       /\ last.handlers = routes[k].handlers
       /\ \E j \in 1..(k - 1) :
            /\ \E i \in 1..Len(RouteSegs(routes[j].path)) :
                 ~IsStatic(RouteSegs(routes[j].path)[i])
            /\ Matches(RouteSegs(routes[j].path), ReqSegsOf(last.path))

---------------------------------------------------------------------------
(* C6 *)

\* Routes r and p run through two children of one node: they agree before
\* segment i, where r has a parameter and p a wildcard.
Siblings(r, p, i) ==
  /\ i <= Len(r) /\ i <= Len(p)
  /\ IsParam(r[i]) /\ IsWild(p[i])
  /\ \A m \in 1..(i - 1) : r[m] = p[m] \/ (IsParam(r[m]) /\ IsParam(p[m]))

\* C6: when a route through a Parameter child and a route through a sibling
\* Wildcard child both match the request path and no route of higher priority
\* than the parameter route matches it, Find returns the parameter route's chain.
C6_ParamBeforeWildcard ==
  last.op = "Find" =>
    \A j \in 1..Len(routes) : \A k \in 1..Len(routes) :
      LET r == RouteSegs(routes[j].path)
          p == RouteSegs(routes[k].path)
          q == ReqSegsOf(last.path)
      IN (/\ WellFormed(routes[j].path) /\ WellFormed(routes[k].path)
          /\ \E i \in 1..Len(r) : Siblings(r, p, i)
          /\ Matches(r, q) /\ Matches(p, q)
          /\ ~Outranked(j, q))
         => last.handlers = routes[j].handlers

---------------------------------------------------------------------------
(* C7 *)

\* C7: Find returns a nil chain for a path that no registered route matches
\* segment by segment.
C7_Miss ==
  (last.op = "Find"
   /\ \A k \in 1..Len(routes) : ~Matches(RouteSegs(routes[k].path), ReqSegsOf(last.path)))
  => last.handlers = NilChain

\* A lookup of a strict prefix of the only kind of route registered missed.
C7_Witness ==
  /\ last.op = "Find"
  /\ last.handlers = NilChain
  /\ Len(routes) > 0
  /\ \A k \in 1..Len(routes) : ~Matches(RouteSegs(routes[k].path), ReqSegsOf(last.path))
  /\ \E k \in 1..Len(routes) :
       LET r == RouteSegs(routes[k].path)
           q == ReqSegsOf(last.path)
       IN /\ Len(q) >= 1 /\ Len(q) < Len(r)
          /\ Matches(SubSeq(r, 1, Len(q)), q)

---------------------------------------------------------------------------
(* C8 *)

\* C8: Find returns normally on every tree addRoute can build, malformed
\* routes included: no index or re-slice of findNode or tryBacktrack is out
\* of range.
C8_NoPanic ==
  last.op = "Find" => last.err = "none"

\* A lookup that backtracked on a tree holding a wildcard in the middle of a
\* route returned.
C8_Witness ==
  /\ last.op = "Find"
  /\ last.err = "none"
  /\ Len(last.params) > 0
  /\ \E k \in 1..Len(routes) : ~WellFormed(routes[k].path)
  /\ \E n \in 1..Len(tree) : tree[n].NodeType = Wildcard /\ Len(tree[n].Children) > 0

---------------------------------------------------------------------------
(* C9 *)

\* The child of node n that a registration segment s lands on: a child with
\* that very path, or a Parameter child when s is a parameter; 0 if none.
ChildFor(nodes, n, s) ==
  LET ch == nodes[n].Children
      S == { k \in 1..Len(ch) :
               \/ nodes[ch[k]].Path = s
               \/ (nodes[ch[k]].NodeType = Parameter /\ IsParam(s)) }
  IN IF S = {} THEN 0 ELSE ch[CHOOSE k \in S : \A j \in S : k <= j]

\* The node of `nodes` reached from node n along segments segs, 0 when some
\* segment has no node yet.
RECURSIVE Landing(_, _, _)
Landing(nodes, n, segs) ==
  IF segs = <<>> THEN n
  ELSE LET c == ChildFor(nodes, n, segs[1]) IN
       IF c = 0 THEN 0 ELSE Landing(nodes, c, Tail(segs))

LastSegmentNonEmpty(path) ==
  LET segs == splitPath(path) IN segs[Len(segs)] # <<>>

---------------------------------------------------------------------------
(* C10 *)

\* C10: addRoute("/", H) raises RootAlreadyRegistered when the root carries
\* handlers; when it carries none the root gets H and Find("/") returns H.
C10_RootRoute ==
  [][ (last'.op = "addRoute" /\ last'.path = <<Slash>>) =>
        IF LenChain(tree[1].Handlers) > 0
          THEN last'.err = "RootAlreadyRegistered"
          ELSE /\ last'.err = "none"
               /\ tree'[1].Handlers = last'.handlers
               /\ Find(tree', <<Slash>>).handler = last'.handlers
     ]_vars

\* A second registration of "/" failed with RootAlreadyRegistered.
C10_Witness ==
  /\ last.op = "addRoute"
  /\ last.path = <<Slash>>
  /\ last.err = "RootAlreadyRegistered"
  /\ \E k \in 1..Len(routes) : routes[k].path = <<Slash>>

---------------------------------------------------------------------------
(* C11 *)

\* The root of the tree of a method in the registry, a fresh root when the
\* method has no tree yet.
RootOf(mtrees, method) ==
  IF get(mtrees, method) = 0 THEN NewEngineRoot[1]
  ELSE mtrees[get(mtrees, method)].nodes[1]

\* C11: a registration of "" or of "/" through the engine is refused as a
\* duplicate root when the root of the method's tree carries handlers;
\* otherwise it succeeds, the root gets the chain passed, and a request for
\* "/" under the method starts that chain.
C11_EmptyPathIsRoot ==
  [][ (last'.op = "Engine.addRoute" /\ last'.path \in { <<>>, <<Slash>> }) =>
        IF LenChain(RootOf(trees, last'.method).Handlers) > 0
          THEN last'.err = "RootAlreadyRegistered"
          ELSE /\ last'.err = "none"
               /\ RootOf(trees', last'.method).Handlers = last'.handlers
               /\ LenChain(last'.handlers) > 0 =>
                    handleHttpRequest(trees', last'.method, <<Slash>>).executed
                      = last'.handlers.fns
     ]_vars

\* The same for NodeTree.addRoute, which does treat "" as "/".
C11_TreeEmptyPathIsRoot ==
  [][ (last'.op = "addRoute" /\ last'.path \in { <<>>, <<Slash>> }) =>
        IF LenChain(tree[1].Handlers) > 0
          THEN last'.err = "RootAlreadyRegistered"
          ELSE /\ last'.err = "none"
               /\ tree'[1].Handlers = last'.handlers
               /\ Find(tree', <<Slash>>).handler = last'.handlers
     ]_vars

---------------------------------------------------------------------------
(* C12 *)

\* Routes r and p have the same segments but for the names of parameters, at
\* least one of which differs.
SameButParamNames(r, p) ==
  /\ Len(r) = Len(p)
  /\ \A i \in 1..Len(r) : r[i] = p[i] \/ (IsParam(r[i]) /\ IsParam(p[i]))
  /\ \E i \in 1..Len(r) : r[i] # p[i]

\* C12: addRoute of a path that differs from a registered route in the names
\* of parameter segments only raises DuplicateRoute.
C12_ParamNameConflation ==
  [][ (/\ last'.op = "addRoute"
       /\ \E k \in 1..Len(routes) :
            SameButParamNames(RouteSegs(last'.path), RouteSegs(routes[k].path)))
      => last'.err = "DuplicateRoute"
     ]_vars

\* /:x/a was registered and the registration of /:y/a, or the like, failed
\* with DuplicateRoute.
C12_Witness ==
  /\ last.op = "addRoute"
  /\ last.err = "DuplicateRoute"
  /\ \A k \in 1..Len(routes) : routes[k].path # last.path
  /\ \E k \in 1..Len(routes) :
       SameButParamNames(RouteSegs(last.path), RouteSegs(routes[k].path))

---------------------------------------------------------------------------
(* C13 *)

\* Routes r and p have the same segments but for the name of the wildcard
\* they end in.
SameButWildcardName(r, p) ==
  /\ Len(r) = Len(p) /\ Len(r) > 0
  /\ \A i \in 1..(Len(r) - 1) : r[i] = p[i] /\ ~IsWild(r[i])
  /\ IsWild(r[Len(r)]) /\ IsWild(p[Len(p)])
  /\ r[Len(r)] # p[Len(p)]

\* C13: addRoute of a path that differs from a registered route in the name
\* of its final wildcard only raises DuplicateRoute.
C13_WildcardNameDuplicate ==
  [][ (/\ last'.op = "addRoute"
       /\ \E k \in 1..Len(routes) :
            SameButWildcardName(RouteSegs(last'.path), RouteSegs(routes[k].path)))
      => last'.err = "DuplicateRoute"
     ]_vars

---------------------------------------------------------------------------
(* C14 *)

\* C14: a registration under one method, accepted or refused, leaves the
\* outcome of every request under another method as it was, and the chain a
\* request starts was registered under the request's own method.
C14_MethodIsolation ==
  [][ /\ last'.op = "Engine.addRoute" =>
           \A m \in Methods \ { last'.method } : \A p \in EngineReqPaths :
             handleHttpRequest(trees', m, p) = handleHttpRequest(trees, m, p)
      /\ (last'.op = "handleHttpRequest" /\ LenChain(last'.handlers) > 0) =>
           \E k \in 1..Len(routes') :
             /\ routes'[k].method = last'.method
             /\ routes'[k].handlers = last'.handlers
     ]_vars

\* One path is registered under both methods with chains of their own, and a
\* request for it ran the chain of the request's method.
C14_Witness ==
  /\ last.op = "handleHttpRequest"
  /\ Len(last.executed) > 0
  /\ \E j \in 1..Len(routes) : \E k \in 1..Len(routes) :
       /\ routes[j].method = last.method
       /\ routes[k].method # last.method
       /\ routes[j].path = routes[k].path
       /\ routes[j].path = last.path
       /\ LenChain(routes[k].handlers) > 0
       /\ last.handlers = routes[j].handlers

---------------------------------------------------------------------------
(* C17 *)

\* What Find returns for a request: the result of Find on the tree of the
\* request's method, a nil chain when the method has no tree.
FoundFor(mtrees, method, path) ==
  IF get(mtrees, method) = 0
    THEN [handler |-> NilChain, params |-> <<>>, panic |-> FALSE]
    ELSE Find(mtrees[get(mtrees, method)].nodes, path)

\* C17: a request whose method has no tree, or for whose path Find returns an
\* empty chain, runs no handler and leaves the context aborted; any other
\* request runs the chain Find returned, in order, with the context's Params
\* those Find returned.
C17_Dispatch ==
  last.op = "handleHttpRequest" =>
    LET r == FoundFor(trees, last.method, last.path) IN
    IF LenChain(r.handler) = 0
      THEN last.executed = <<>> /\ last.index >= abortIndex
      ELSE /\ last.executed = r.handler.fns
           /\ last.handlers = r.handler
           /\ last.params = r.params

---------------------------------------------------------------------------
(* C18 *)

\* The places of the entries of ps whose key is name.
PlacesOf(ps, name) == { i \in 1..Len(ps) : ps[i].Key = name }

\* C18: Get(name) returns the value of the first entry whose key is name and
\* true, or "" and false when no entry has that key; ByName(name) returns the
\* same value, "" when absent.
C18_GetFirst ==
  last.op = "Get" =>
    LET S == PlacesOf(last.params, last.name) IN
    IF S = {}
      THEN last.value = <<>> /\ ~last.found /\ last.byName = <<>>
      ELSE \E i \in S :
             /\ \A j \in S : i <= j
             /\ last.value = last.params[i].Value
             /\ last.found
             /\ last.byName = last.params[i].Value

\* Get was asked for a key that two entries with different values carry, and
\* returned the value of the earlier one.
C18_Witness ==
  /\ last.op = "Get"
  /\ \E i \in PlacesOf(last.params, last.name) :
       \E j \in PlacesOf(last.params, last.name) :
         /\ i < j
         /\ \A k \in PlacesOf(last.params, last.name) : i <= k
         /\ last.params[i].Value # last.params[j].Value
         /\ last.value = last.params[i].Value
         /\ last.byName = last.params[i].Value
         /\ last.found

---------------------------------------------------------------------------
(* C19 *)

\* Routes r and p run through the same node before segment i.
SameNodeBefore(r, p, i) ==
  /\ i <= Len(r) /\ i <= Len(p)
  /\ \A m \in 1..(i - 1) : r[m] = p[m] \/ (IsParam(r[m]) /\ IsParam(p[m]))

\* The registered routes that, at segment i, run through the Parameter child
\* of the node route r reaches before segment i, and match request q.
ThroughParamChild(r, i, q) ==
  { k \in 1..Len(routes) :
      LET p == RouteSegs(routes[k].path) IN
      SameNodeBefore(r, p, i) /\ IsParam(p[i]) /\ Matches(p, q) }

\* At the node route r reaches before segment i, a static child equal to
\* segment i of q exists, and no registered route through it matches q.
StaticDeadEnd(r, i, q) ==
  /\ i <= Len(q)
  /\ \E k \in 1..Len(routes) :
       LET p == RouteSegs(routes[k].path) IN
       SameNodeBefore(r, p, i) /\ IsStatic(p[i]) /\ p[i] = q[i]
  /\ \A k \in 1..Len(routes) :
       LET p == RouteSegs(routes[k].path) IN
       (SameNodeBefore(r, p, i) /\ IsStatic(p[i]) /\ p[i] = q[i]) => ~Matches(p, q)

\* C19: when, at some node, the static child equal to the current segment
\* leads to no route matching the request path while a route through the
\* sibling Parameter child matches it, Find returns the chain of a route
\* through the Parameter child.  Stated for trees of well-formed routes and
\* for the lookups in which no route of higher priority matches.
C19_Backtracking ==
  (last.op = "Find" /\ AllWellFormed) =>
    \A j \in 1..Len(routes) :
      LET r == RouteSegs(routes[j].path)
          q == ReqSegsOf(last.path)
      IN \A i \in 1..Len(r) :
           (/\ IsParam(r[i])
            /\ Matches(r, q)
            /\ StaticDeadEnd(r, i, q)
            /\ ~Outranked(j, q))
           => \E k \in ThroughParamChild(r, i, q) :
                last.handlers = routes[k].handlers

---------------------------------------------------------------------------
(* C20 *)

\* The node at which a registered path terminates: the root for "" and "/",
\* else the node reached along its segments.
TerminalOf(nodes, path) == Landing(nodes, 1, RouteSegs(path))

\* C20: after any sequence of addRoute calls that succeeded, a node carries
\* handlers exactly when a registered route terminates at it, and every
\* registered route left its chain on the node it terminates at.
C20_HandlersIffTerminal ==
  Running =>
    /\ \A n \in 1..Len(tree) :
         LenChain(tree[n].Handlers) > 0 <=>
           \E k \in 1..Len(routes) : TerminalOf(tree, routes[k].path) = n
    /\ \A k \in 1..Len(routes) :
         tree[TerminalOf(tree, routes[k].path)].Handlers = routes[k].handlers

---------------------------------------------------------------------------
(* C15 *)

\* C15: every call of Find returns: a call that has entered findNode reaches
\* the return of Find after finitely many steps, whatever tree addRoute built
\* and whatever the request path.
C15_FindTerminates ==
  \A g \in Goroutines : (calls[g].pc = "run") ~> (calls[g].pc = "done")

\* A call returned a chain after it had popped the record of a skipped
\* Parameter node and re-entered findNode at that node.
C15_Witness ==
  /\ calls[FirstGoroutine].pc = "done"
  /\ calls[FirstGoroutine].pops >= 1
  /\ Len(calls[FirstGoroutine].params) > 0
  /\ LenChain(calls[FirstGoroutine].handler) > 0
  /\ \A n \in 1..Len(tree) : tree[n].NodeType # Wildcard

---------------------------------------------------------------------------
(* C16 *)

\* C16: no step of a call of Find changes a node of the tree, and every call,
\* whatever calls run interleaved with it, returns the chain and the Params
\* Find returns for its path when run alone.
C16_PureReadPerCall ==
  [][ /\ calls' # calls => tree' = tree
      /\ \A g \in Goroutines :
           /\ calls'[g].pc # "panic"
           /\ calls'[g].pc = "done" =>
                /\ calls'[g].handler = Find(tree', calls'[g].path).handler
                /\ calls'[g].params = Find(tree', calls'[g].path).params
     ]_vars

\* Two calls for different paths ran step in step, each popped a skipped-node
\* record and captured a Param, and both have returned.
C16_Witness ==
  /\ \A g \in Goroutines :
       /\ calls[g].pc = "done"
       /\ calls[g].overlap
       /\ calls[g].pops > 0
       /\ Len(calls[g].params) > 0
  /\ calls[1].path # calls[2].path

---------------------------------------------------------------------------
(* C21 *)

\* Node n is a Wildcard child registered after another Wildcard child of the
\* same node.
LaterWildcard(n) ==
  /\ n # 1
  /\ tree[n].NodeType = Wildcard
  /\ LET ch == tree[Parent(n)].Children IN ch[FirstWildcard(tree, ch)] # n

\* C21: Find never returns the handlers of a Wildcard child that was
\* registered after another Wildcard child of the same node.
C21_LaterWildcardUnreachable ==
  last.op = "Find" =>
    \A n \in 1..Len(tree) :
      (LaterWildcard(n) /\ LenChain(tree[n].Handlers) > 0)
      => last.handlers # tree[n].Handlers

---------------------------------------------------------------------------
(* C22 *)

\* The methods passed to Engine.addRoute so far. A refused registration
\* panics and is the last call of the program, so it is the one in last.
MethodsPassed ==
  { routes[k].method : k \in 1..Len(routes) }
    \cup (IF last.op = "Engine.addRoute" THEN { last.method } ELSE {})

\* C22: the registry holds exactly one tree per method ever passed to
\* Engine.addRoute; the first registration of a method appends its tree, a
\* later one works on the same root and keeps its nodes, and no tree is
\* removed, replaced or moved.
C22_OneTreePerMethod ==
  /\ [](/\ { trees[i].Method : i \in 1..Len(trees) } = MethodsPassed
        /\ \A i \in 1..Len(trees) : \A j \in 1..Len(trees) :
             trees[i].Method = trees[j].Method => i = j)
  /\ [][ last'.op = "Engine.addRoute" =>
           LET known == \E k \in 1..Len(trees) : trees[k].Method = last'.method IN
             /\ Len(trees') = (IF known THEN Len(trees) ELSE Len(trees) + 1)
             /\ ~known => trees'[Len(trees')].Method = last'.method
             /\ \A k \in 1..Len(trees) :
                  /\ trees'[k].Method = trees[k].Method
                  /\ trees[k].Method # last'.method => trees'[k] = trees[k]
                  /\ Len(trees'[k].nodes) >= Len(trees[k].nodes)
                  /\ \A n \in 1..Len(trees[k].nodes) :
                       /\ trees'[k].nodes[n].Path = trees[k].nodes[n].Path
                       /\ trees'[k].nodes[n].NodeType = trees[k].nodes[n].NodeType
       ]_vars

\* A second route was registered under a method that had a tree: the registry
\* still holds one tree, and the tree grew.
C22_Witness ==
  /\ last.op = "Engine.addRoute"
  /\ last.err = "none"
  /\ Len(routes) = 2
  /\ routes[1].method = routes[2].method
  /\ Len(trees) = 1
  /\ Len(trees[1].nodes) >= 3

---------------------------------------------------------------------------
(* C23 *)

\* The request path with a slash added at its end.
WithSlash(path) == path \o <<Slash>>

EndsInSlash(path) == Len(path) > 0 /\ path[Len(path)] = Slash

\* What Find returns for the path of the last lookup with a slash added is
\* the chain the lookup returned, and "" is answered as "/" is.
SlashAdded ==
  /\ Find(tree, WithSlash(last.path)).handler = last.handlers
  /\ last.path = <<>> => Find(tree, <<Slash>>) = Find(tree, <<>>)

\* C23 as stated: for every request path p, Find(p + "/") returns the handler
\* chain Find(p) returns, and Find("") returns what Find("/") returns.
C23_TrailingSlashEveryPath ==
  last.op = "Find" => SlashAdded

\* C23: for every request path p that does not itself end in a slash,
\* Find(p + "/") returns the handler chain Find(p) returns, and Find("")
\* returns what Find("/") returns.
C23_TrailingSlash ==
  (last.op = "Find" /\ ~EndsInSlash(last.path)) => SlashAdded

\* A lookup of a path without a trailing slash returned a chain after it
\* captured a parameter, and the path with the slash added returns it too.
C23_Witness ==
  /\ last.op = "Find"
  /\ ~EndsInSlash(last.path)
  /\ Len(last.path) > 1
  /\ LenChain(last.handlers) > 0
  /\ Len(last.params) > 0
  /\ Find(tree, WithSlash(last.path)).handler = last.handlers

---------------------------------------------------------------------------
(* C24 *)

\* A registration that failed on path left nodes `new` of nodes `old`: the
\* tree is the same, and the node the path lands on carries a chain other
\* than the one passed.
FailedLeaves(old, new, path, handlers) ==
  /\ new = old
  /\ LET n == Landing(new, 1, RouteSegs(path)) IN
       /\ n # 0
       /\ LenChain(new[n].Handlers) > 0
       /\ new[n].Handlers # handlers

\* C24: an addRoute that fails with DuplicateRoute or RootAlreadyRegistered
\* leaves the tree as it was: no node is created, no child list and no
\* handler chain changes, the node of the path still carries the chain of an
\* earlier registration, and Find returns for every request path what it
\* returned before.
C24_FailedAddRouteNoChange ==
  [][ (last'.op = "addRoute" /\ last'.err # "none") =>
        /\ last'.err \in { "DuplicateRoute", "RootAlreadyRegistered" }
        /\ FailedLeaves(tree, tree', last'.path, last'.handlers)
        /\ LET n == Landing(tree', 1, RouteSegs(last'.path)) IN
             /\ \E k \in 1..Len(routes) :
                  /\ routes[k].handlers = tree'[n].Handlers
                  /\ Landing(tree, 1, RouteSegs(routes[k].path)) = n
             /\ AllStatic(last'.path) =>
                  Find(tree', last'.path).handler = tree[n].Handlers
        /\ \A p \in ReqPaths : Find(tree', p) = Find(tree, p)
     ]_vars

\* The same for Node.addRoute in the tree of the method.
C24_EngineFailedAddRouteNoChange ==
  [][ (last'.op = "Engine.addRoute" /\ last'.err # "none") =>
        /\ Len(trees') = Len(trees)
        /\ \A k \in 1..Len(trees) :
             IF trees[k].Method = last'.method
               THEN /\ trees'[k].Method = trees[k].Method
                    /\ FailedLeaves(trees[k].nodes, trees'[k].nodes,
                                    last'.path, last'.handlers)
               ELSE trees'[k] = trees[k]
     ]_vars

\* A third registration, of a path of two segments, failed as a duplicate in
\* a tree of four nodes or more.
C24_Witness ==
  /\ last.op = "addRoute"
  /\ last.err = "DuplicateRoute"
  /\ Len(RouteSegs(last.path)) = 2
  /\ Len(routes) = 2
  /\ Len(tree) >= 4

---------------------------------------------------------------------------
(* C25 *)

IsPrefix(s, t) == Len(s) <= Len(t) /\ SubSeq(t, 1, Len(s)) = s

\* The nodes of `new` whose handler chain is not the one they had in `old`;
\* a node that `old` does not have had none.
HandlersSet(old, new) ==
  { n \in 1..Len(new) :
      new[n].Handlers # (IF n <= Len(old) THEN old[n].Handlers ELSE NilChain) }

\* A successful registration of path with handlers took nodes `old` to `new`
\* by appending nodes along the path and setting the chain of at most one
\* node, which had none.
OnlyAppends(old, new, path, handlers) ==
  LET segs == RouteSegs(path) IN
  /\ Len(new) >= Len(old)
  /\ Len(new) - Len(old) <= Len(segs)
  /\ \A n \in 1..Len(old) :
       /\ new[n].Path = old[n].Path
       /\ new[n].NodeType = old[n].NodeType
       /\ IsPrefix(old[n].Children, new[n].Children)
       /\ LenChain(old[n].Handlers) > 0 => new[n].Handlers = old[n].Handlers
  /\ \A n \in (Len(old) + 1)..Len(new) :
       \E j \in 1..Len(segs) :
         /\ Landing(new, 1, SubSeq(segs, 1, j)) = n
         /\ new[n].Path = segs[j]
  /\ Cardinality(HandlersSet(old, new)) <= 1
  /\ \A n \in HandlersSet(old, new) : new[n].Handlers = handlers

\* C25: a successful addRoute only appends nodes along the registered path
\* and sets the Handlers of at most one node, which had none; every existing
\* node keeps its path, its type, its non-empty chain and the order of the
\* children it had, so the node of every registered route still carries the
\* chain the route was registered with.
C25_AddRouteOnlyAppends ==
  /\ [](\A k \in 1..Len(routes) :
          (LastSegmentNonEmpty(routes[k].path) \/ routes[k].path \in { <<>>, <<Slash>> })
          => LET n == Landing(tree, 1, RouteSegs(routes[k].path)) IN
               n # 0 /\ tree[n].Handlers = routes[k].handlers)
  /\ [][ (last'.op = "addRoute" /\ last'.err = "none") =>
           OnlyAppends(tree, tree', last'.path, last'.handlers) ]_vars

\* The same for Node.addRoute in the tree of the method.
C25_EngineAddRouteOnlyAppends ==
  [][ (last'.op = "Engine.addRoute" /\ last'.err = "none") =>
        \A k \in 1..Len(trees) :
          IF trees[k].Method = last'.method
            THEN OnlyAppends(trees[k].nodes, trees'[k].nodes, last'.path, last'.handlers)
            ELSE trees'[k] = trees[k]
     ]_vars

\* The third of three successful registrations created no node: it set the
\* chain of a node that the first had created without one.
C25_Witness ==
  /\ last.op = "addRoute"
  /\ last.err = "none"
  /\ Len(routes) = 3
  /\ Len(tree) = 3
  /\ Len(RouteSegs(routes[1].path)) = 2
  /\ Len(RouteSegs(last.path)) = 1
  /\ \A n \in 1..Len(tree) : LenChain(tree[n].Handlers) > 0

---------------------------------------------------------------------------
(* C26 *)

ParameterChildren(n) ==
  { k \in 1..Len(tree[n].Children) : tree[tree[n].Children[k]].NodeType = Parameter }

\* C26: every node has at most one Parameter child, and no two children of a
\* node have the same Path.
C26_ChildrenDistinct ==
  \A n \in 1..Len(tree) :
    LET ch == tree[n].Children IN
    /\ Cardinality(ParameterChildren(n)) <= 1
    /\ \A j \in 1..Len(ch) : \A k \in 1..Len(ch) :
         tree[ch[j]].Path = tree[ch[k]].Path => j = k

\* A route starting with :x, one starting with :y and one starting with a
\* static segment are registered, and the root has two children, one of them
\* the Parameter child that both names share.
C26_Witness ==
  /\ Len(routes) = 3
  /\ \E j \in 1..3 : \E k \in 1..3 :
       /\ RouteSegs(routes[j].path)[1] = <<Colon, "x">>
       /\ RouteSegs(routes[k].path)[1] = <<Colon, "y">>
  /\ \E j \in 1..3 : IsStatic(RouteSegs(routes[j].path)[1])
  /\ Len(tree[1].Children) = 2
  /\ Cardinality(ParameterChildren(1)) = 1

---------------------------------------------------------------------------
(* C27 *)

\* C27: when Find returns no handlers, the Params it returns are empty.
C27_NoMatchNoParams ==
  (last.op = "Find" /\ last.err = "none" /\ AllWellFormed
     /\ LenChain(last.handlers) = 0)
  => Len(last.params) = 0

---------------------------------------------------------------------------
(* C28 *)

\* The context of the chain run, and the kinds of its chain.
Ctx == calls[FirstGoroutine]
InChainRun == Ctx.pc \in { "loop", "done", "panic", "cut" }
KindAt(i) == Ctx.handlers.fns[i + 1]
Places == 0..(LenChain(Ctx.handlers) - 1)

\* The times (places in `executed`) at which the handler at place i did ev.
Times(i, ev) ==
  { t \in 1..Len(Ctx.executed) : Ctx.executed[t] = Event(i, ev) }

NoAbortInChain == \A i \in Places : KindAt(i) # "abort"

\* C28: in a chain of fewer than 63 handlers none of which calls Abort, the
\* run started by Next ends, and when it has ended every handler was entered
\* exactly once, in chain order; a handler that does not call Next returns
\* before the next one is entered, and a handler that calls Next returns
\* after every later handler was entered and has returned.
C28_EveryHandlerOnceInOrder ==
  (InChainRun /\ NoAbortInChain /\ LenChain(Ctx.handlers) < abortIndex) =>
    /\ Ctx.pc \in { "loop", "done" }
    /\ \A i \in Places : \A j \in Places :
         \A t \in Times(i, "enter") : \A u \in Times(j, "enter") :
           (i < j <=> t < u) /\ (i = j => t = u)
    /\ Ctx.pc = "done" =>
         \A i \in Places :
           IF KindAt(i) = "nil"
             THEN Times(i, "enter") = {} /\ Times(i, "exit") = {}
             ELSE /\ Cardinality(Times(i, "enter")) = 1
                  /\ Cardinality(Times(i, "exit")) = 1
                  /\ \A t \in Times(i, "enter") : \A u \in Times(i, "exit") :
                       /\ t < u
                       /\ KindAt(i) = "plain" => u = t + 1
                       /\ KindAt(i) = "next" =>
                            \A j \in Places : \A ev \in { "enter", "exit" } :
                              \A v \in Times(j, ev) : j > i => (t < v /\ v < u)

\* A run of a chain of abortIndex - 1 handlers that all call Next has ended.
C28_Witness ==
  /\ Ctx.pc = "done"
  /\ LenChain(Ctx.handlers) = abortIndex - 1
  /\ \A i \in Places : KindAt(i) = "next"
  /\ Len(Ctx.executed) = 2 * (abortIndex - 1)

\* A run of a chain that mixes handlers that call Next with handlers that
\* do not has ended.
C28_MixedWitness ==
  /\ Ctx.pc = "done"
  /\ Ctx.handlers.fns = << "next", "plain", "next", "plain" >>

---------------------------------------------------------------------------
(* C29 *)

\* C29: once a handler has called Abort, no handler placed after it in the
\* chain is entered, and IsAborted() is true from then on, whatever the
\* length of the chain.
C29_AbortStopsChain ==
  InChainRun =>
    \A i \in Places : \A t \in Times(i, "abort") :
      /\ \A j \in Places : \A u \in Times(j, "enter") : j > i => u < t
      /\ IsAborted(Ctx)

---------------------------------------------------------------------------
(* C30 *)

\* The node that carries the chain of a route registered under method and
\* path, 0 when there is none.
RouteNode(mtrees, method, path) ==
  IF get(mtrees, method) = 0 THEN 0
  ELSE Landing(mtrees[get(mtrees, method)].nodes, 1, RouteSegs(path))

\* C30: the chain a route method of a RouterGroup registers is the chain the
\* group got when Group() created it, then the handlers added to the group by
\* Use() in call order, then the route's own handlers in the order given;
\* the path it registers is the group's base path joined with the relative
\* path; and the node of the route carries that chain from then on.
C30_GroupChainAndPath ==
  /\ [](\A g \in 1..Len(groups) : groups[g].Handlers.fns = Middleware(groups[g]))
  /\ [](\A k \in 1..Len(routes) :
          LET n == RouteNode(trees, routes[k].method, routes[k].path) IN
          /\ n # 0
          /\ trees[get(trees, routes[k].method)].nodes[n].Handlers = routes[k].handlers)
  /\ [][ last'.op = "handle" =>
           LET r == groups[last'.group] IN
           /\ last'.handlers.fns = r.inherited \o r.given \o r.used \o last'.own
           /\ RouteSegs(last'.path) = RouteSegs(r.BasePath) \o RouteSegs(last'.rel)
           /\ last'.path = PathOf(RouteSegs(last'.path))
           /\ last'.err = "none" =>
                /\ Len(routes') = Len(routes) + 1
                /\ routes'[Len(routes')].handlers = last'.handlers
                /\ routes'[Len(routes')].path = last'.path
       ]_vars

\* A route with two handlers of its own was registered through a group made
\* by Group() with a handler, from a parent that had one from Use(), and
\* after a Use() on the group itself.
C30_Witness ==
  /\ last.op = "handle"
  /\ last.err = "none"
  /\ last.group > 1
  /\ Len(groups[last.group].inherited) = 1
  /\ Len(groups[last.group].given) = 1
  /\ Len(groups[last.group].used) = 1
  /\ Len(last.own) = 2
  /\ Len(RouteSegs(groups[last.group].BasePath)) >= 1
  /\ Len(RouteSegs(last.rel)) = 1
---------------------------------------------------------------------------
(* The response writer, as the claims speak of it *)

\* The calls that write the response, and the place of the first of them
\* among the calls made (0 when none was made yet).
WritingOps == { "WriteHeaderNow", "Write", "WriteString", "Flush" }
WritingCalls == { i \in DOMAIN writer.calls : writer.calls[i].op \in WritingOps }
FirstWritten ==
  IF WritingCalls = {} THEN 0
  ELSE CHOOSE i \in WritingCalls : \A j \in WritingCalls : i <= j

\* The status set by the last WriteHeader(code > 0) among the first n calls,
\* 200 when there is none.
StatusSetBefore(n) ==
  LET set == { i \in 1..n : /\ writer.calls[i].op = "WriteHeader"
                            /\ writer.calls[i].arg > 0 } IN
  IF set = {} THEN defaultStatus
  ELSE writer.calls[CHOOSE i \in set : \A j \in set : j <= i].arg

Hijacked == \E i \in DOMAIN writer.calls : writer.calls[i].op = "Hijack"
StatusLines == { p \in DOMAIN writer.conn : writer.conn[p].piece = "status" }
BodyPieces == { p \in DOMAIN writer.conn : writer.conn[p].piece = "body" }

---------------------------------------------------------------------------
(* C31 *)

\* C31: in a sequence of WriteHeader, WriteHeaderNow, Write, WriteString and
\* Flush calls (and calls that set headers) the connection gets no status
\* line before the first of the writing calls and exactly one from then on;
\* it is the first thing on the connection, so before every body byte, and
\* it carries the status of the last WriteHeader(code > 0) made before that
\* call, 200 if none; Status() returns that same status after that call and
\* after every later call, WriteHeader included.
C31_StatusLineOnce ==
  ~Hijacked =>
    IF FirstWritten = 0
      THEN writer.conn = <<>> /\ ~writer.headerSent
      ELSE /\ StatusLines = { 1 }
           /\ writer.conn[1].code = StatusSetBefore(FirstWritten)
           /\ \A p \in BodyPieces : p > 1
           /\ \A i \in FirstWritten..Len(writer.calls) :
                writer.calls[i].status = StatusSetBefore(FirstWritten)

\* Witness: WriteHeader(404), then a Write of two bytes, then WriteHeader(500)
\* were called: the connection got one status line, of 404, then the body,
\* and Status() is still 404.
C31_Witness ==
  /\ ~Hijacked
  /\ Len(writer.calls) = 3
  /\ writer.calls[1].op = "WriteHeader" /\ writer.calls[1].arg = 404
  /\ writer.calls[2].op = "Write" /\ writer.calls[2].arg = <<"h", "i">>
  /\ writer.calls[3].op = "WriteHeader" /\ writer.calls[3].arg = 500
  /\ writer.status = 404
  /\ writer.conn[1] = StatusText(404)
  /\ BodyPieces # {}
---------------------------------------------------------------------------
(* C32 *)

\* The header block on the connection: everything up to the first body byte.
HeaderBlockEnd ==
  IF BodyPieces = {} THEN Len(writer.conn)
  ELSE (CHOOSE p \in BodyPieces : \A q \in BodyPieces : p <= q) - 1

\* C32: once the headers were sent, the header block on the connection ends
\* with an empty line, the CRLF of the last line followed by a bare CRLF,
\* and every body byte comes after it, whatever headers were set.
C32_HeaderBlockEndsWithEmptyLine ==
  writer.headerSent =>
    /\ HeaderBlockEnd >= 2
    /\ writer.conn[HeaderBlockEnd] = CRLF
    /\ writer.conn[HeaderBlockEnd - 1] = CRLF
---------------------------------------------------------------------------
(* C33 *)

\* The step is a call of Hijack.
HijackCalled ==
  /\ Len(writer'.calls) = Len(writer.calls) + 1
  /\ writer'.calls[Len(writer'.calls)].op = "Hijack"

\* C33: a call of Hijack returns an error exactly when a status line, and
\* with it the header block, is on the connection already; otherwise it
\* returns the connection; either way Written() is true after the call and
\* the call writes nothing.
C33_HijackErrorIffHeadersSent ==
  [][HijackCalled =>
       LET result == writer'.calls[Len(writer'.calls)].result IN
       /\ result = "error" <=> StatusLines # {}
       /\ result = "conn" <=> StatusLines = {}
       /\ Written(writer')
       /\ writer'.conn = writer.conn]_vars

\* Witness: Hijack returned the connection, a Write after it put body bytes
\* but no status line on the connection, and a second Hijack returned the
\* connection again.
C33_Witness ==
  /\ Len(writer.calls) = 3
  /\ writer.calls[1].op = "Hijack" /\ writer.calls[1].result = "conn"
  /\ writer.calls[2].op = "Write" /\ BodyPieces # {} /\ StatusLines = {}
  /\ writer.calls[3].op = "Hijack" /\ writer.calls[3].result = "conn"
  /\ Written(writer)

\* Hijack after the headers were sent: it returned an error.
C33_RefusedAfterHeaders ==
  /\ Len(writer.calls) = 2
  /\ writer.calls[1].op = "WriteHeaderNow"
  /\ writer.calls[2].op = "Hijack" /\ writer.calls[2].result = "error"
  /\ StatusLines = { 1 }
---------------------------------------------------------------------------
(* C34 *)

\* The frames i..j that arrived are one fragmented message: a text or binary
\* frame with FIN clear, continuation frames with FIN clear, and a
\* continuation frame with FIN set.
Fragmented(i, j) ==
  /\ i < j
  /\ ws.frames[i].opcode \in { OpText, OpBinary } /\ ~ws.frames[i].fin
  /\ \A k \in (i + 1)..(j - 1) :
       ws.frames[k].opcode = OpContinuation /\ ~ws.frames[k].fin
  /\ ws.frames[j].opcode = OpContinuation /\ ws.frames[j].fin

\* The payloads of the frames i..j, one after the other.
RECURSIVE Payloads(_, _)
Payloads(i, j) ==
  IF i > j THEN <<>> ELSE ws.frames[i].payload \o Payloads(i + 1, j)

\* The ReadMessage calls that returned on reading one of the frames i..j.
ReturnedWithin(i, j) == { n \in DOMAIN ws.reads : ws.reads[n].upto \in i..j }

\* C34: when the frames i..j of a fragmented message have been read, exactly
\* one ReadMessage call returned while reading them, on the last of them,
\* with a message that has the opcode of frame i and the payloads of the
\* frames i..j concatenated in their order; right after it no fragmented
\* message is in progress, and if the next frame read is a continuation
\* frame the call that reads it returns an error.
C34_Reassembly ==
  \A i \in 1..ws.taken : \A j \in i..ws.taken :
    Fragmented(i, j) =>
      /\ \E n \in DOMAIN ws.reads :
           /\ ReturnedWithin(i, j) = { n }
           /\ ws.reads[n].upto = j
           /\ ws.reads[n].err = "none"
           /\ ws.reads[n].OpCode = ws.frames[i].opcode
           /\ ws.reads[n].Payload = Payloads(i, j)
      /\ ws.taken = j => ws.fragmentBuffer.isNil
      /\ (ws.taken > j /\ ws.frames[j + 1].opcode = OpContinuation) =>
           \E n \in DOMAIN ws.reads :
             /\ ws.reads[n].from = j + 1 /\ ws.reads[n].upto = j + 1
             /\ ws.reads[n].err # "none"

\* Witness: a text frame with an empty payload and FIN clear, a continuation
\* frame "a" with FIN clear, a continuation frame "bc" with FIN set and one
\* more continuation frame were read: the first call returned the text
\* message "abc", the second an error.
C34_Witness ==
  /\ ws.taken = 4
  /\ Fragmented(1, 3)
  /\ ws.frames[1] = [fin |-> FALSE, opcode |-> OpText, payload |-> <<>>]
  /\ ws.frames[2].payload = <<97>>
  /\ ws.frames[4].opcode = OpContinuation
  /\ Len(ws.reads) = 2
  /\ ws.reads[1].OpCode = OpText /\ ws.reads[1].Payload = <<97, 98, 99>>
  /\ ws.reads[2].err # "none"

---------------------------------------------------------------------------
(* The frames written, as the claims speak of them *)

\* The places on the connection of the frame headers written.
FrameHeaders == { p \in DOMAIN ws.wire : ws.wire[p].part = "header" }
LastFrameHeader == CHOOSE p \in FrameHeaders : \A q \in FrameHeaders : q <= p

\* The call of the goroutine g is over: it returned or panicked.
CallOver(g) == CallNo(g) > 0 /\ calls[g].pc \in { "idle", "panicked" }

---------------------------------------------------------------------------
(* C35 *)

\* C35: a call WriteFragmentedMessage(opcode, payload, fragmentSize) with a
\* text or binary opcode and a positive fragmentSize does not panic; once
\* it is over, a frame was written and the last frame written has FIN set;
\* and when ReadMessage at the other end has read all the frames it has
\* returned exactly once, with a message of that opcode and payload.
C35_FragmentationRoundTrip ==
  (CallOver(FirstGoroutine) /\ calls[FirstGoroutine].op = "WriteFragmentedMessage"
     /\ calls[FirstGoroutine].fragmentSize > 0) =>
    /\ calls[FirstGoroutine].ret = "nil"
    /\ FrameHeaders # {}
    /\ BitAnd(ws.wire[LastFrameHeader].bytes[1], 128) = 128
    /\ ws.unread = <<>> =>
         ws.reads = << [err |-> "none", from |-> 1, upto |-> ws.taken,
                        OpCode |-> calls[FirstGoroutine].opcode,
                        Payload |-> calls[FirstGoroutine].payload] >>

---------------------------------------------------------------------------
(* C36 *)

\* The writes to the connection made by the call n of the goroutine g.
WritesOf(g, n) == { p \in DOMAIN ws.wire : ws.wire[p].g = g /\ ws.wire[p].n = n }

\* C36: a WriteMessage or WriteFragmentedMessage call begun when a close
\* frame was on the connection already, made directly or by Close or
\* CloseWithCode, writes nothing to the connection and returns the error
\* "connection closed"; and at most one close frame is on the connection,
\* however Close, CloseWithCode, WriteMessage and WriteFragmentedMessage
\* calls of two goroutines interleave.
C36_NothingAfterClose ==
  /\ \A g \in Goroutines :
       (CallNo(g) > 0 /\ calls[g].closeBefore /\ calls[g].wm # "skipped") =>
         /\ WritesOf(g, calls[g].n) = {}
         /\ calls[g].wm \in { "pending", "connection closed" }
  /\ Cardinality(CloseFrames) <= 1

\* The calls outside which C36 holds: WriteFragmentedMessage wrote a close
\* frame with FIN clear, or was called with a fragmentSize that is not
\* positive.
FragmentedCloseOrBadSize ==
  \/ \E p \in CloseFrames : BitAnd(ws.wire[p].bytes[1], 128) = 0
  \/ \E g \in Goroutines :
       /\ CallNo(g) > 0
       /\ calls[g].op = "WriteFragmentedMessage" /\ calls[g].fragmentSize <= 0

---------------------------------------------------------------------------
(* C37 *)

\* C37: on the connection every frame header is followed at once by the
\* payload of the same call (or is the last write so far), every payload
\* follows the header of its call, and the writes of one call, all the
\* frames of a fragmented message included, lie side by side with no write
\* of another call between them, however the calls of two goroutines
\* interleave.
C37_WriteAtomicity ==
  /\ \A p \in DOMAIN ws.wire :
       IF ws.wire[p].part = "header"
         THEN p < Len(ws.wire) =>
                /\ ws.wire[p + 1].part = "payload"
                /\ ws.wire[p + 1].g = ws.wire[p].g
                /\ ws.wire[p + 1].n = ws.wire[p].n
         ELSE /\ p > 1
              /\ ws.wire[p - 1].part = "header"
              /\ ws.wire[p - 1].g = ws.wire[p].g
              /\ ws.wire[p - 1].n = ws.wire[p].n
  /\ \A p \in DOMAIN ws.wire : \A q \in DOMAIN ws.wire :
       (p < q /\ ws.wire[p].g = ws.wire[q].g /\ ws.wire[p].n = ws.wire[q].n) =>
         \A r \in p..q :
           ws.wire[r].g = ws.wire[p].g /\ ws.wire[r].n = ws.wire[p].n

\* Witness: the first goroutine holds the mutex in WriteFragmentedMessage,
\* the first fragment written and the header of the second about to be,
\* while the second goroutine waits for the mutex in WriteMessage; frames of
\* an earlier call of the second goroutine are on the connection already.
C37_Witness ==
  /\ AtPc(1, "header") /\ calls[1].op = "WriteFragmentedMessage"
  /\ Cardinality(WritesOf(1, calls[1].n)) = 2
  /\ ws.writeMu = 1
  /\ AtPc(2, "lock") /\ calls[2].op = "WriteMessage" /\ calls[2].n = 2
  /\ WritesOf(2, 1) # {}

===========================================================================
